---- MODULE Spec2Model ----
(***************************************************************************)
(* Course dependency engine of the bulletin website: the requirement-tree  *)
(* evaluator (utils/courseUtils.js), the availability classifier           *)
(* (utils/graphColors getNodeColor), and the two layouts of                *)
(* CourseGraphProcessor (processGraph, processRadialGraph).                *)
(***************************************************************************)
EXTENDS Integers, Sequences, FiniteSets, TLC

VARIABLES
    evl,    \* the evaluateReq call under study: its arguments and its return value
    ctc,    \* the canTakeCourse call under study: its arguments and its return value
    courses,            \* the catalog the graph component has loaded (a list of Course)
    user,               \* useAuth: TRUE when a user is logged in
    db,                 \* the user's user_progress row in the database, or Null
    progress,           \* useUserProgress: the progress state, or Null
    loading,            \* useUserProgress: the loading state
    saving,             \* useUserProgress: the saving state
    saves,              \* the save() calls that have not returned yet, oldest first
    completedCourses,   \* component state: ids of completed courses
    externalCourses,    \* component state: external course codes
    mode,               \* component state: 'view', 'completed' or 'prereqs'
    futureMode,         \* component state
    selectedCourse,     \* component state: a course id, or NoCourse
    colors,             \* the fill colour the last render gave each node
    pCourses,   \* CourseGraphProcessor: this.courses
    gpc,        \* processGraph: "new" before the call, "loop" in the queue loop, "done"
    inDeg,      \* processGraph: remaining in-degree of each course
    queue,      \* processGraph: the Kahn queue
    level,      \* processGraph: the level object
    grid,       \* processGraph: the returned {nodes, links}, Null before it returns
    rpc,        \* processRadialGraph: "depths" in courses.forEach, then "done"
    rnext,      \* processRadialGraph: index of the next course of courses.forEach
    visited,    \* processRadialGraph: the visited set
    depths,     \* processRadialGraph: the depths object, its entries in key order
    radial      \* processRadialGraph: the returned {nodes, links}, Null before

callVars == <<evl, ctc>>
appVars == <<courses, user, db, progress, loading, saving, saves, completedCourses,
             externalCourses, mode, futureMode, selectedCourse, colors>>
layoutVars == <<pCourses, gpc, inDeg, queue, level, grid, rpc, rnext, visited, depths,
                radial>>
vars == <<evl, ctc, courses, user, db, progress, loading, saving, saves,
          completedCourses, externalCourses, mode, futureMode, selectedCourse, colors,
          pCourses, gpc, inDeg, queue, level, grid, rpc, rnext, visited, depths, radial>>

(***************************************************************************)
(* Bounds of the model                                                     *)
(***************************************************************************)
\* largest number of nodes (leaves and AND/OR nodes) in a requirement tree
MaxTreeSize == 3
\* standings a student record ranges over: 1..MaxStanding
MaxStanding == 3
\* save() calls that may be in flight at once
MaxInflight == 2
\* COURSE leaves in the prerequisite trees of a layout catalog, all courses together
MaxPrereqLeaves == 3

(***************************************************************************)
(* Requirement trees (ReqNode)                                             *)
(***************************************************************************)
\* no call of the function under study has been made
Idle == [phase |-> "idle"]

\* a missing (undefined) prerequisites / corequisites field
Null == [kind |-> "NULL"]
TrueNode == [kind |-> "TRUE"]
CourseNode(id) == [kind |-> "COURSE", courseId |-> id]
StandingNode(min) == [kind |-> "STANDING_AT_LEAST", minStanding |-> min]
AndNode(ns) == [kind |-> "AND", nodes |-> ns]
OrNode(ns) == [kind |-> "OR", nodes |-> ns]

\* course ids the evaluator's inputs are drawn from
EvalIds == {"A", "B"}
\* the threshold of the standing leaves drawn
LeafMinStanding == 2

Leaves(ids) ==
    {TrueNode, StandingNode(LeafMinStanding)} \cup {CourseNode(i) : i \in ids}

RECURSIVE TreesOfSize(_, _), SeqsOfSize(_, _)
\* the requirement trees over course ids `ids` that have exactly n nodes
TreesOfSize(ids, n) ==
    IF n <= 0 THEN {}
    ELSE (IF n = 1 THEN Leaves(ids) ELSE {})
         \cup {AndNode(ns) : ns \in SeqsOfSize(ids, n - 1)}
         \cup {OrNode(ns) : ns \in SeqsOfSize(ids, n - 1)}
\* the lists of requirement trees that have n nodes in total
SeqsOfSize(ids, n) ==
    IF n = 0 THEN {<<>>}
    ELSE UNION {{<<t>> \o rest : t \in TreesOfSize(ids, k),
                                 rest \in SeqsOfSize(ids, n - k)} : k \in 1..n}

ReqTrees(ids, n) == UNION {TreesOfSize(ids, k) : k \in 1..n}

(***************************************************************************)
(* utils/courseUtils.js                                                    *)
(***************************************************************************)
RECURSIVE evaluateReq(_, _, _, _, _), every(_, _, _, _, _), some(_, _, _, _, _)

everyStopsAtFirst(ns, completedCourseIds, takingNowIds, userStanding, reqMode) ==
    IF ns = <<>> THEN TRUE
    ELSE evaluateReq(Head(ns), completedCourseIds, takingNowIds, userStanding, reqMode)

\* Array.prototype.every over node.nodes: left to right, stops at the first false
every(ns, completedCourseIds, takingNowIds, userStanding, reqMode) ==
    IF ns = <<>> THEN TRUE
    ELSE IF ~evaluateReq(Head(ns), completedCourseIds, takingNowIds, userStanding, reqMode)
         THEN FALSE
         ELSE every(Tail(ns), completedCourseIds, takingNowIds, userStanding, reqMode)

\* Array.prototype.some over node.nodes: left to right, stops at the first true
some(ns, completedCourseIds, takingNowIds, userStanding, reqMode) ==
    IF ns = <<>> THEN FALSE
    ELSE IF evaluateReq(Head(ns), completedCourseIds, takingNowIds, userStanding, reqMode)
         THEN TRUE
         ELSE some(Tail(ns), completedCourseIds, takingNowIds, userStanding, reqMode)

evaluateReqCoreqForPrereq(node, completedCourseIds, takingNowIds, userStanding, reqMode) ==
    IF node.kind = "NULL" THEN TRUE
    ELSE CASE node.kind = "TRUE" -> TRUE
           [] node.kind = "COURSE" ->
                node.courseId \in completedCourseIds \/ node.courseId \in takingNowIds
           [] node.kind = "STANDING_AT_LEAST" -> userStanding >= node.minStanding
           [] node.kind = "AND" ->
                every(node.nodes, completedCourseIds, takingNowIds, userStanding, reqMode)
           [] node.kind = "OR" ->
                some(node.nodes, completedCourseIds, takingNowIds, userStanding, reqMode)
           [] OTHER -> FALSE

evaluateReqOrEmptyTrue(node, completedCourseIds, takingNowIds, userStanding, reqMode) ==
    IF node.kind = "NULL" THEN TRUE
    ELSE CASE node.kind = "TRUE" -> TRUE
           [] node.kind = "COURSE" ->
                LET done == node.courseId \in completedCourseIds
                IN  IF reqMode = "PREREQ" THEN done
                    ELSE done \/ node.courseId \in takingNowIds
           [] node.kind = "STANDING_AT_LEAST" -> userStanding >= node.minStanding
           [] node.kind = "AND" ->
                every(node.nodes, completedCourseIds, takingNowIds, userStanding, reqMode)
           [] node.kind = "OR" ->
                node.nodes = <<>>
                \/ some(node.nodes, completedCourseIds, takingNowIds, userStanding, reqMode)
           [] OTHER -> FALSE

evaluateReqStandingExact(node, completedCourseIds, takingNowIds, userStanding, reqMode) ==
    IF node.kind = "NULL" THEN TRUE
    ELSE CASE node.kind = "TRUE" -> TRUE
           [] node.kind = "COURSE" ->
                LET done == node.courseId \in completedCourseIds
                IN  IF reqMode = "PREREQ" THEN done
                    ELSE done \/ node.courseId \in takingNowIds
           [] node.kind = "STANDING_AT_LEAST" -> userStanding = node.minStanding
           [] node.kind = "AND" ->
                every(node.nodes, completedCourseIds, takingNowIds, userStanding, reqMode)
           [] node.kind = "OR" ->
                some(node.nodes, completedCourseIds, takingNowIds, userStanding, reqMode)
           [] OTHER -> FALSE

evaluateReq(node, completedCourseIds, takingNowIds, userStanding, reqMode) ==
    IF node.kind = "NULL" THEN TRUE
    ELSE CASE node.kind = "TRUE" -> TRUE
           [] node.kind = "COURSE" ->
                LET done == node.courseId \in completedCourseIds
                IN  IF reqMode = "PREREQ" THEN done
                    ELSE done \/ node.courseId \in takingNowIds
           [] node.kind = "STANDING_AT_LEAST" -> userStanding >= node.minStanding
           [] node.kind = "AND" ->
                every(node.nodes, completedCourseIds, takingNowIds, userStanding, reqMode)
           [] node.kind = "OR" ->
                some(node.nodes, completedCourseIds, takingNowIds, userStanding, reqMode)
           [] OTHER -> FALSE

RECURSIVE extractCourseIds(_), flatMapExtract(_)

\* node.nodes.flatMap(n => extractCourseIds(n))
flatMapExtract(ns) ==
    IF ns = <<>> THEN <<>>
    ELSE extractCourseIds(Head(ns)) \o flatMapExtract(Tail(ns))

\* the course ids of the COURSE leaves of a tree, in tree order, repeats kept
extractCourseIds(node) ==
    IF node.kind = "NULL" THEN <<>>
    ELSE CASE node.kind = "TRUE" -> <<>>
           [] node.kind = "COURSE" -> <<node.courseId>>
           [] node.kind \in {"AND", "OR"} -> flatMapExtract(node.nodes)
           [] node.kind = "STANDING_AT_LEAST" -> <<>>
           [] OTHER -> <<>>

getPrerequisiteCourseIds(course) ==
    IF course = Null \/ course.prerequisites = Null THEN <<>>
    ELSE extractCourseIds(course.prerequisites)

getCorequisiteCourseIds(course) ==
    IF course = Null \/ course.corequisites = Null THEN <<>>
    ELSE extractCourseIds(course.corequisites)

canTakeCourseNoActiveGate(course, completedCourseIds, takingNowIds, userStanding) ==
    IF course = Null THEN FALSE
    ELSE LET prereqOK == IF course.prerequisites = Null THEN TRUE
                         ELSE evaluateReq(course.prerequisites, completedCourseIds,
                                          {}, userStanding, "PREREQ")
             coreqOK == IF course.corequisites = Null THEN TRUE
                        ELSE evaluateReq(course.corequisites, completedCourseIds,
                                         takingNowIds, userStanding, "COREQ")
         IN  prereqOK /\ coreqOK

canTakeCoursePrereqAsCoreq(course, completedCourseIds, takingNowIds, userStanding) ==
    IF course = Null \/ ~course.active THEN FALSE
    ELSE LET prereqOK == IF course.prerequisites = Null THEN TRUE
                         ELSE evaluateReq(course.prerequisites, completedCourseIds,
                                          takingNowIds, userStanding, "COREQ")
             coreqOK == IF course.corequisites = Null THEN TRUE
                        ELSE evaluateReq(course.corequisites, completedCourseIds,
                                         takingNowIds, userStanding, "COREQ")
         IN  prereqOK /\ coreqOK

canTakeCourse(course, completedCourseIds, takingNowIds, userStanding) ==
    IF course = Null \/ ~course.active THEN FALSE
    ELSE LET prereqOK == IF course.prerequisites = Null THEN TRUE
                         ELSE evaluateReq(course.prerequisites, completedCourseIds,
                                          {}, userStanding, "PREREQ")
             coreqOK == IF course.corequisites = Null THEN TRUE
                        ELSE evaluateReq(course.corequisites, completedCourseIds,
                                         takingNowIds, userStanding, "COREQ")
         IN  prereqOK /\ coreqOK

(***************************************************************************)
(* The catalog index: buildCourseMap, buildCourseCodeMap                   *)
(***************************************************************************)
\* the value of selectedCourse when no course is selected (null)
NoCourse == "null"
\* a course id that requirement leaves may name and no catalog contains
AbsentId == "Z"

Course(id, code, deptCode, number, active, prerequisites, corequisites) ==
    [id |-> id, code |-> code, deptCode |-> deptCode, number |-> number,
     active |-> active, prerequisites |-> prerequisites,
     corequisites |-> corequisites]

SeqToSet(q) == {q[i] : i \in DOMAIN q}

\* Object.fromEntries(courses.map(c => [c.id, c])): the last entry of an id wins
buildCourseMap(cs) ==
    [id \in {cs[i].id : i \in DOMAIN cs} |->
        cs[CHOOSE i \in DOMAIN cs :
              cs[i].id = id /\ \A j \in DOMAIN cs : cs[j].id = id => j <= i]]

\* Object.fromEntries(courses.map(c => [c.code, c])): the last entry of a code wins
buildCourseCodeMap(cs) ==
    [code \in {cs[i].code : i \in DOMAIN cs} |->
        cs[CHOOSE i \in DOMAIN cs :
              cs[i].code = code /\ \A j \in DOMAIN cs : cs[j].code = code => j <= i]]

\* map[key], undefined (Null) when the key is absent
Lookup(map, key) == IF key \in DOMAIN map THEN map[key] ELSE Null

getAllPrerequisitesDirectOnly(courseId, courseMap, visitedIds) ==
    IF courseId \in visitedIds THEN visitedIds
    ELSE LET course == Lookup(courseMap, courseId)
         IN  IF course = Null THEN visitedIds \cup {courseId}
             ELSE visitedIds \cup {courseId}
                             \cup SeqToSet(getPrerequisiteCourseIds(course))

RECURSIVE getAllPrerequisites(_, _, _), forEachPrereq(_, _, _)
\* directPrereqs.forEach(prereqId => getAllPrerequisites(prereqId, courseMap, visitedIds))
forEachPrereq(prereqIds, courseMap, visitedIds) ==
    IF prereqIds = <<>> THEN visitedIds
    ELSE forEachPrereq(Tail(prereqIds), courseMap,
                       getAllPrerequisites(Head(prereqIds), courseMap, visitedIds))

getAllPrerequisites(courseId, courseMap, visitedIds) ==
    IF courseId \in visitedIds THEN visitedIds
    ELSE LET v1 == visitedIds \cup {courseId}
             course == Lookup(courseMap, courseId)
         IN  IF course = Null THEN v1
             ELSE forEachPrereq(getPrerequisiteCourseIds(course), courseMap, v1)

(***************************************************************************)
(* The availability classifier: getNodeColor and getExternalCourseIds      *)
(***************************************************************************)
\* the ids of the catalog courses whose code is one of the external codes
getExternalCourseIds(external, courseCodeMap) ==
    {courseCodeMap[code].id : code \in external \cap DOMAIN courseCodeMap}

\* the second and third parameter of canTakeCourse when the caller passes none
DefaultTakingNow == {}
DefaultStanding == 1

getNodeColorFixedPoint(id, m, completed, externalCourseIds, courseMap, selected, future) ==
    IF m \in {"completed", "view"} THEN
        IF id \in completed THEN "COMPLETED"
        ELSE LET course == Lookup(courseMap, id)
                 allCompletedIds == completed \cup externalCourseIds
                 canTake(c, done) == canTakeCourse(c, done, DefaultTakingNow,
                                                   DefaultStanding)
             IN  IF course = Null THEN "LOCKED"
                 ELSE IF canTake(course, allCompletedIds) THEN "AVAILABLE"
                 ELSE IF future THEN
                     LET currentlyAvailable ==
                             {cid \in DOMAIN courseMap :
                                 cid \notin completed
                                 /\ canTake(courseMap[cid], allCompletedIds)}
                         hypotheticalCompleted == allCompletedIds \cup currentlyAvailable
                         secondStep ==
                             {cid \in DOMAIN courseMap :
                                 canTake(courseMap[cid], hypotheticalCompleted)}
                     IN  IF canTake(course, hypotheticalCompleted \cup secondStep)
                         THEN "FUTURE" ELSE "LOCKED"
                 ELSE "LOCKED"
    ELSE IF m = "prereqs" /\ selected # NoCourse THEN
        IF id \in getAllPrerequisites(selected, courseMap, {})
        THEN "PREREQ" ELSE "PREREQ_FADED"
    ELSE "LOCKED"

getNodeColorOnlyAvailable(id, m, completed, externalCourseIds, courseMap, selected, future) ==
    IF m \in {"completed", "view"} THEN
        IF id \in completed THEN "COMPLETED"
        ELSE LET course == Lookup(courseMap, id)
                 allCompletedIds == completed \cup externalCourseIds
                 canTake(c, done) == canTakeCourse(c, done, DefaultTakingNow,
                                                   DefaultStanding)
             IN  IF course = Null THEN "LOCKED"
                 ELSE IF canTake(course, allCompletedIds) THEN "AVAILABLE"
                 ELSE IF future THEN
                     LET currentlyAvailable ==
                             {cid \in DOMAIN courseMap :
                                 cid \notin completed
                                 /\ canTake(courseMap[cid], allCompletedIds)}
                         hypotheticalCompleted == currentlyAvailable
                     IN  IF canTake(course, hypotheticalCompleted)
                         THEN "FUTURE" ELSE "LOCKED"
                 ELSE "LOCKED"
    ELSE IF m = "prereqs" /\ selected # NoCourse THEN
        IF id \in getAllPrerequisites(selected, courseMap, {})
        THEN "PREREQ" ELSE "PREREQ_FADED"
    ELSE "LOCKED"

getNodeColorGateFirst(id, m, completed, externalCourseIds, courseMap, selected, future) ==
    IF m \in {"completed", "view"} THEN
        LET course == Lookup(courseMap, id)
            allCompletedIds == completed \cup externalCourseIds
            canTake(c, done) == canTakeCourse(c, done, DefaultTakingNow, DefaultStanding)
        IN  IF course = Null THEN "LOCKED"
            ELSE IF ~course.active THEN "LOCKED"
            ELSE IF id \in completed THEN "COMPLETED"
            ELSE IF canTake(course, allCompletedIds) THEN "AVAILABLE"
            ELSE IF future THEN
                LET currentlyAvailable ==
                        {cid \in DOMAIN courseMap :
                            cid \notin completed
                            /\ canTake(courseMap[cid], allCompletedIds)}
                    hypotheticalCompleted == allCompletedIds \cup currentlyAvailable
                IN  IF canTake(course, hypotheticalCompleted)
                    THEN "FUTURE" ELSE "LOCKED"
            ELSE "LOCKED"
    ELSE IF m = "prereqs" /\ selected # NoCourse THEN
        IF id \in getAllPrerequisites(selected, courseMap, {})
        THEN "PREREQ" ELSE "PREREQ_FADED"
    ELSE "LOCKED"

getNodeColor(id, m, completed, externalCourseIds, courseMap, selected, future) ==
    IF m \in {"completed", "view"} THEN
        IF id \in completed THEN "COMPLETED"
        ELSE LET course == Lookup(courseMap, id)
                 allCompletedIds == completed \cup externalCourseIds
                 canTake(c, done) == canTakeCourse(c, done, DefaultTakingNow,
                                                   DefaultStanding)
             IN  IF course = Null THEN "LOCKED"
                 ELSE IF canTake(course, allCompletedIds) THEN "AVAILABLE"
                 ELSE IF future THEN
                     LET currentlyAvailable ==
                             {cid \in DOMAIN courseMap :
                                 cid \notin completed
                                 /\ canTake(courseMap[cid], allCompletedIds)}
                         hypotheticalCompleted == allCompletedIds \cup currentlyAvailable
                     IN  IF canTake(course, hypotheticalCompleted)
                         THEN "FUTURE" ELSE "LOCKED"
                 ELSE "LOCKED"
    ELSE IF m = "prereqs" /\ selected # NoCourse THEN
        IF id \in getAllPrerequisites(selected, courseMap, {})
        THEN "PREREQ" ELSE "PREREQ_FADED"
    ELSE "LOCKED"

RenderExternalAsCompleted(cs, completed, external, m, selected, future) ==
    LET courseMap == buildCourseMap(cs)
        courseCodeMap == buildCourseCodeMap(cs)
    IN  [id \in DOMAIN courseMap |->
            getNodeColor(id, m,
                         completed \cup getExternalCourseIds(external, courseCodeMap),
                         {}, courseMap, selected, future)]

\* one render: the colour of every node of the graph
Render(cs, completed, external, m, selected, future) ==
    LET courseMap == buildCourseMap(cs)
        courseCodeMap == buildCourseCodeMap(cs)
    IN  [id \in DOMAIN courseMap |->
            getNodeColor(id, m, completed, getExternalCourseIds(external, courseCodeMap),
                         courseMap, selected, future)]

(***************************************************************************)
(* Catalogs the graph component is run on                                  *)
(***************************************************************************)
CourseA(active, pre, co) == Course("A", "CSE 114", "CSE", "114", active, pre, co)
CourseB(active, pre, co) == Course("B", "CSE 214", "CSE", "214", active, pre, co)
CourseC(active, pre, co) == Course("C", "CSE 220", "CSE", "220", active, pre, co)

\* three-course catalogs: every combination of the requirement trees below, with at
\* most one inactive course
Catalogs ==
    {<<CourseA(inactive # "A", preA, Null),
       CourseB(inactive # "B", preB, Null),
       CourseC(inactive # "C", preC, coC)>> :
        preA \in {Null, StandingNode(LeafMinStanding)},
        preB \in {Null, CourseNode("A"), CourseNode(AbsentId),
                  OrNode(<<CourseNode("A"), CourseNode("C")>>)},
        preC \in {CourseNode("B"),
                  AndNode(<<CourseNode("A"), CourseNode("B")>>),
                  OrNode(<<CourseNode("A"), CourseNode("B")>>),
                  AndNode(<<CourseNode("A"), StandingNode(LeafMinStanding)>>)},
        coC \in {Null, CourseNode("A")},
        inactive \in {"none", "A", "B", "C"}}

\* the catalog of a logged-in session: a standing guard and a corequisite
SessionCatalogs ==
    {<<CourseA(TRUE, StandingNode(LeafMinStanding), Null),
       CourseB(TRUE, Null, CourseNode("A"))>>}

\* what the user may type into the external-course box, and what
\* courseCode.trim().toUpperCase() makes of it
ExternalInputs == {"cse 114 ", "MAT 125", "  "}
trimToUpperCase(courseCode) ==
    CASE courseCode = "cse 114 " -> "CSE 114"
      [] courseCode = "MAT 125" -> "MAT 125"
      [] courseCode = "  " -> ""

(***************************************************************************)
(* useUserProgress and userProgressService: load and save                  *)
(***************************************************************************)
\* the row saveUserProgress upserts for a payload that carries no takingNow
progressData(payload) ==
    [completed_courses |-> payload.completedCourses,
     taking_now |-> {},
     external_courses |-> payload.externalCourses,
     standing |-> payload.standing]

\* progress?.standing || 1
standingOf(p) == IF p = Null THEN 1 ELSE p.standing

RemoveAt(q, i) == [j \in 1..(Len(q) - 1) |-> IF j < i THEN q[j] ELSE q[j + 1]]

\* the effect on [progress]: local state follows a non-null progress
SyncCompleted(p, old) == IF p = Null THEN old ELSE p.completed_courses
SyncExternal(p, old) == IF p = Null THEN old ELSE p.external_courses

\* save(updatedProgress) up to its await: nothing without a user, else saving is set
\* and the request is on its way
IssueSave(payload) ==
    IF ~user THEN UNCHANGED <<saving, saves>>
    ELSE /\ Len(saves) < MaxInflight
         /\ saving' = TRUE
         /\ saves' = Append(saves, [payload |-> payload, stage |-> "sent"])

\* every state change is followed by a render
Rerender == colors' = Render(courses', completedCourses', externalCourses', mode',
                             selectedCourse', futureMode')

LoadProgress ==
    /\ loading
    /\ loading' = FALSE
    /\ progress' = IF user THEN db ELSE Null
    /\ completedCourses' = SyncCompleted(progress', completedCourses)
    /\ externalCourses' = SyncExternal(progress', externalCourses)
    /\ UNCHANGED <<courses, user, db, saving, saves, mode, futureMode, selectedCourse>>
    /\ Rerender
    /\ UNCHANGED <<callVars, layoutVars>>

\* getUserProgress throws: the error is logged and progress stays as it is
LoadFail ==
    /\ loading /\ user
    /\ loading' = FALSE
    /\ UNCHANGED <<courses, user, db, progress, saving, saves, completedCourses,
                   externalCourses, mode, futureMode, selectedCourse, colors>>
    /\ UNCHANGED <<callVars, layoutVars>>

\* the upsert of a save reaches the database
SaveStore(i) ==
    /\ i \in DOMAIN saves
    /\ saves[i].stage = "sent"
    /\ db' = progressData(saves[i].payload)
    /\ saves' = [saves EXCEPT ![i].stage = "stored"]
    /\ UNCHANGED <<courses, user, progress, loading, saving, completedCourses,
                   externalCourses, mode, futureMode, selectedCourse, colors>>
    /\ UNCHANGED <<callVars, layoutVars>>

\* saveUserProgress returns the saved row: setProgress(saved), setSaving(false)
SaveResolve(i) ==
    /\ i \in DOMAIN saves
    /\ saves[i].stage = "stored"
    /\ progress' = progressData(saves[i].payload)
    /\ saving' = FALSE
    /\ saves' = RemoveAt(saves, i)
    /\ completedCourses' = SyncCompleted(progress', completedCourses)
    /\ externalCourses' = SyncExternal(progress', externalCourses)
    /\ UNCHANGED <<courses, user, db, loading, mode, futureMode, selectedCourse>>
    /\ Rerender
    /\ UNCHANGED <<callVars, layoutVars>>

SaveFailRollsBack(i) ==
    /\ i \in DOMAIN saves
    /\ saving' = FALSE
    /\ saves' = RemoveAt(saves, i)
    /\ completedCourses' = IF progress = Null THEN {} ELSE progress.completed_courses
    /\ externalCourses' = IF progress = Null THEN {} ELSE progress.external_courses
    /\ UNCHANGED <<courses, user, db, progress, loading, mode, futureMode,
                   selectedCourse>>
    /\ Rerender
    /\ UNCHANGED <<callVars, layoutVars>>

\* saveUserProgress throws: setSaving(false), the handler logs the error
SaveFail(i) ==
    /\ i \in DOMAIN saves
    /\ saving' = FALSE
    /\ saves' = RemoveAt(saves, i)
    /\ UNCHANGED <<courses, user, db, progress, loading, completedCourses,
                   externalCourses, mode, futureMode, selectedCourse, colors>>
    /\ UNCHANGED <<callVars, layoutVars>>

(***************************************************************************)
(* The handlers of the graph component                                     *)
(***************************************************************************)
\* a click on node id in 'completed' mode
toggleCompleted(id) ==
    /\ mode = "completed"
    /\ id \in DOMAIN buildCourseMap(courses)
    /\ LET newCompleted == IF id \in completedCourses
                           THEN completedCourses \ {id}
                           ELSE completedCourses \cup {id}
       IN  /\ completedCourses' = newCompleted
           /\ IssueSave([completedCourses |-> newCompleted,
                         externalCourses |-> externalCourses,
                         standing |-> standingOf(progress)])
    /\ UNCHANGED <<courses, user, db, progress, loading, externalCourses, mode,
                   futureMode, selectedCourse>>
    /\ Rerender
    /\ UNCHANGED <<callVars, layoutVars>>

addExternalCourse(courseCode) ==
    /\ mode = "completed"
    /\ LET trimmed == trimToUpperCase(courseCode)
       IN  IF trimmed = ""
           THEN UNCHANGED <<externalCourses, saving, saves>>
           ELSE LET newExternal == externalCourses \cup {trimmed}
                IN  /\ externalCourses' = newExternal
                    /\ IssueSave([completedCourses |-> completedCourses,
                                  externalCourses |-> newExternal,
                                  standing |-> standingOf(progress)])
    /\ UNCHANGED <<courses, user, db, progress, loading, completedCourses, mode,
                   futureMode, selectedCourse>>
    /\ Rerender
    /\ UNCHANGED <<callVars, layoutVars>>

removeExternalCourse(courseCode) ==
    /\ mode = "completed"
    /\ courseCode \in externalCourses
    /\ LET newExternal == externalCourses \ {courseCode}
       IN  /\ externalCourses' = newExternal
           /\ IssueSave([completedCourses |-> completedCourses,
                         externalCourses |-> newExternal,
                         standing |-> standingOf(progress)])
    /\ UNCHANGED <<courses, user, db, progress, loading, completedCourses, mode,
                   futureMode, selectedCourse>>
    /\ Rerender
    /\ UNCHANGED <<callVars, layoutVars>>

\* the mode buttons
SetModeView ==
    /\ mode' = "view" /\ selectedCourse' = NoCourse /\ futureMode' = FALSE
    /\ UNCHANGED <<courses, user, db, progress, loading, saving, saves,
                   completedCourses, externalCourses>>
    /\ Rerender
    /\ UNCHANGED <<callVars, layoutVars>>

SetModeCompleted ==
    /\ mode' = "completed" /\ selectedCourse' = NoCourse
    /\ UNCHANGED <<courses, user, db, progress, loading, saving, saves,
                   completedCourses, externalCourses, futureMode>>
    /\ Rerender
    /\ UNCHANGED <<callVars, layoutVars>>

SetFutureMode ==
    /\ mode = "completed"
    /\ futureMode' = ~futureMode
    /\ UNCHANGED <<courses, user, db, progress, loading, saving, saves,
                   completedCourses, externalCourses, mode, selectedCourse>>
    /\ Rerender
    /\ UNCHANGED <<callVars, layoutVars>>

SetModePrereqs ==
    /\ mode' = "prereqs" /\ futureMode' = FALSE
    /\ UNCHANGED <<courses, user, db, progress, loading, saving, saves,
                   completedCourses, externalCourses, selectedCourse>>
    /\ Rerender
    /\ UNCHANGED <<callVars, layoutVars>>

\* a click on node id in 'prereqs' mode
setSelectedCourse(id) ==
    /\ mode = "prereqs"
    /\ id \in DOMAIN buildCourseMap(courses)
    /\ selectedCourse' = id
    /\ UNCHANGED <<courses, user, db, progress, loading, saving, saves,
                   completedCourses, externalCourses, mode, futureMode>>
    /\ Rerender
    /\ UNCHANGED <<callVars, layoutVars>>

(***************************************************************************)
(* components/CourseGraphProcessor.js: the processor and processGraph      *)
(***************************************************************************)
verticalSpacing == 150
horizontalSpacing == 120

\* const x = v; Op(x): v is evaluated once and Op works on its value
Bind(v, Op(_)) == CHOOSE r \in {Op(x) : x \in {v}} : TRUE

\* an object without keys
EmptyObject == [k \in {} |-> 0]
\* obj[key] ?? 0
OrZero(obj, key) == IF key \in DOMAIN obj THEN obj[key] ELSE 0
Max(a, b) == IF a >= b THEN a ELSE b
\* Math.max(...values) of a non-empty set of values
MaxOf(values) == CHOOSE m \in values : \A n \in values : n <= m

\* the keys of Object.fromEntries(courses.map(c => [c.id, ...])): each id once, in
\* the order of its first occurrence
RECURSIVE keysAfter(_, _)
keysAfter(cs, seen) ==
    IF cs = <<>> THEN <<>>
    ELSE IF Head(cs).id \in seen THEN keysAfter(Tail(cs), seen)
    ELSE <<Head(cs).id>> \o keysAfter(Tail(cs), seen \cup {Head(cs).id})
courseKeys(cs) == keysAfter(cs, {})

\* the (prereqId, course.id) pairs in the order that courses.forEach with the inner
\* prereqIds.forEach visits them
RECURSIVE prereqPairs(_)
prereqPairs(cs) ==
    IF cs = <<>> THEN <<>>
    ELSE LET Pairs(prereqIds) ==
                 [i \in DOMAIN prereqIds |->
                     [source |-> prereqIds[i], target |-> Head(cs).id]]
         IN  Bind(getPrerequisiteCourseIds(Head(cs)), Pairs) \o prereqPairs(Tail(cs))

buildAdjacencyListOncePerCourse(cs, courseMap) ==
    LET Build(pairs) ==
            [id \in SeqToSet(courseKeys(cs)) |->
                LET Dependent(c) == [source |-> id, target |-> c] \in SeqToSet(pairs)
                IN  SelectSeq(courseKeys(cs), Dependent)]
    IN  Bind(prereqPairs(cs), Build)

\* courseUtils.js buildAdjacencyList: prerequisite id -> the dependents pushed to it
buildAdjacencyList(cs, courseMap) ==
    LET Build(pairs) ==
            [id \in SeqToSet(courseKeys(cs)) |->
                LET Pushed(pr) == pr.source = id /\ pr.source \in DOMAIN courseMap
                    Targets(into) == [i \in DOMAIN into |-> into[i].target]
                IN  Bind(SelectSeq(pairs, Pushed), Targets)]
    IN  Bind(prereqPairs(cs), Build)

\* the fields the constructor derives from this.courses
thisCourseMap == buildCourseMap(pCourses)
thisAdjList ==
    LET Build(courseMap) == buildAdjacencyList(pCourses, courseMap)
    IN  Bind(thisCourseMap, Build)

\* lines 27-34: every course starts at 0, one more for each entry of an adjacency list
countInDeg(cs, adjList) ==
    LET Count(pairs) ==
            [id \in SeqToSet(courseKeys(cs)) |->
                LET Incoming(pr) == pr.target = id /\ pr.source \in DOMAIN adjList
                IN  Len(SelectSeq(pairs, Incoming))]
    IN  Bind(prereqPairs(cs), Count)

\* lines 27-45: count the in-degrees, seed the queue with the courses of in-degree 0
GridSeed ==
    /\ gpc = "new"
    /\ \E adjList \in {thisAdjList} : \E deg \in {countInDeg(pCourses, adjList)} :
          LET IsRoot(id) == deg[id] = 0
              roots == SelectSeq(courseKeys(pCourses), IsRoot)
          IN  /\ inDeg' = deg
              /\ queue' = roots
              /\ level' = [id \in SeqToSet(roots) |-> 0]
    /\ gpc' = "loop"
    /\ UNCHANGED <<pCourses, grid, rpc, rnext, visited, depths, radial>>
    /\ UNCHANGED <<callVars, appVars>>

RECURSIVE forEachDependent(_, _, _)
forEachDependentFirstPath(dependents, courseId, st) ==
    IF dependents = <<>> THEN st
    ELSE LET dependentId == Head(dependents)
             Visit(s) ==
                 LET inDeg1 == [s.inDeg EXCEPT ![dependentId] = @ - 1]
                     level1 == (dependentId :>
                                  IF dependentId \in DOMAIN s.level
                                  THEN s.level[dependentId]
                                  ELSE OrZero(s.level, courseId) + 1) @@ s.level
                     queue1 == IF inDeg1[dependentId] = 0
                               THEN Append(s.queue, dependentId) ELSE s.queue
                 IN  [inDeg |-> inDeg1, level |-> level1, queue |-> queue1]
             Rest(s) == forEachDependent(Tail(dependents), courseId, s)
         IN  Bind(Bind(st, Visit), Rest)

\* lines 50-57: this.adjList[courseId].forEach(dependentId => ...)
forEachDependent(dependents, courseId, st) ==
    IF dependents = <<>> THEN st
    ELSE LET dependentId == Head(dependents)
             Visit(s) ==
                 LET inDeg1 == [s.inDeg EXCEPT ![dependentId] = @ - 1]
                     level1 == (dependentId :> Max(OrZero(s.level, dependentId),
                                                   OrZero(s.level, courseId) + 1))
                               @@ s.level
                     queue1 == IF inDeg1[dependentId] = 0
                               THEN Append(s.queue, dependentId) ELSE s.queue
                 IN  [inDeg |-> inDeg1, level |-> level1, queue |-> queue1]
             Rest(s) == forEachDependent(Tail(dependents), courseId, s)
         IN  Bind(Bind(st, Visit), Rest)

\* lines 48-58: one iteration of while (queue.length)
GridShift ==
    /\ gpc = "loop"
    /\ queue # <<>>
    /\ \E dependents \in {thisAdjList[Head(queue)]} :
          \E st \in {forEachDependent(dependents, Head(queue),
                                      [inDeg |-> inDeg, level |-> level,
                                       queue |-> Tail(queue)])} :
              /\ inDeg' = st.inDeg
              /\ level' = st.level
              /\ queue' = st.queue
    /\ UNCHANGED <<pCourses, gpc, grid, rpc, rnext, visited, depths, radial>>
    /\ UNCHANGED <<callVars, appVars>>

isIsolatedInCatalog(course, adjList) ==
    LET InCatalog(id) == id \in DOMAIN adjList
    IN  /\ SelectSeq(getPrerequisiteCourseIds(course), InCatalog) = <<>>
        /\ (IF course.id \in DOMAIN adjList THEN adjList[course.id] ELSE <<>>) = <<>>

\* lines 64-73: a course is isolated when it names no prerequisite id and has no dependent
isIsolated(course, adjList) ==
    /\ getPrerequisiteCourseIds(course) = <<>>
    /\ (IF course.id \in DOMAIN adjList THEN adjList[course.id] ELSE <<>>) = <<>>

\* lines 76-78: tree.forEach(courseId => level[courseId] = (level[courseId] ?? 0) + 1)
RECURSIVE shiftTree(_, _)
shiftTree(tree, lvl) ==
    IF tree = <<>> THEN lvl
    ELSE LET Shift(l) == (Head(tree) :> OrZero(l, Head(tree)) + 1) @@ l
             Rest(l) == shiftTree(Tail(tree), l)
         IN  Bind(Bind(lvl, Shift), Rest)

groupByLevelNewestFirst(isolated, tree, lvl) ==
    [l \in (IF isolated = <<>> THEN {} ELSE {0}) \cup {lvl[id] : id \in SeqToSet(tree)} |->
        LET AtLevel(id) == lvl[id] = l
            Reversed(row) == [i \in DOMAIN row |-> row[Len(row) + 1 - i]]
        IN  Bind((IF l = 0 THEN isolated ELSE <<>>) \o SelectSeq(tree, AtLevel), Reversed)]

\* lines 81-88: the rows, keyed by level
groupByLevel(isolated, tree, lvl) ==
    [l \in (IF isolated = <<>> THEN {} ELSE {0}) \cup {lvl[id] : id \in SeqToSet(tree)} |->
        LET AtLevel(id) == lvl[id] = l
        IN  (IF l = 0 THEN isolated ELSE <<>>) \o SelectSeq(tree, AtLevel)]

\* Object.entries of an object with integer keys: ascending key order
RECURSIVE ascending(_)
ascending(keys) ==
    IF keys = {} THEN <<>>
    ELSE LET least == CHOOSE k \in keys : \A j \in keys : k <= j
         IN  <<least>> \o ascending(keys \ {least})

rowNodesLeftAligned(lvl, courseIds, maxRowWidth, courseMap) ==
    [i \in DOMAIN courseIds |->
        [id |-> courseIds[i], code |-> courseMap[courseIds[i]].code,
         name |-> courseMap[courseIds[i]].code,
         x |-> (i - 1) * horizontalSpacing,
         y |-> lvl * verticalSpacing]]

\* lines 97-110: the nodes of one row, centred on the widest row
rowNodes(lvl, courseIds, maxRowWidth, courseMap) ==
    LET rowWidth == (Len(courseIds) - 1) * horizontalSpacing
        startX == (maxRowWidth - rowWidth) \div 2
    IN  [i \in DOMAIN courseIds |->
            [id |-> courseIds[i], code |-> courseMap[courseIds[i]].code,
             name |-> courseMap[courseIds[i]].code,
             x |-> startX + (i - 1) * horizontalSpacing,
             y |-> lvl * verticalSpacing]]

RECURSIVE gridNodes(_, _, _, _)
gridNodes(levels, levelNodes, maxRowWidth, courseMap) ==
    IF levels = <<>> THEN <<>>
    ELSE rowNodes(Head(levels), levelNodes[Head(levels)], maxRowWidth, courseMap)
         \o gridNodes(Tail(levels), levelNodes, maxRowWidth, courseMap)

\* lines 114-122 (and 216-223): a link for every prerequisite id the catalog contains
buildLinks(cs, courseMap) ==
    LET Known(pr) == pr.source \in DOMAIN courseMap
    IN  SelectSeq(prereqPairs(cs), Known)

partitionTreeNeedsPrereqs(cs, adjList) ==
    LET IsIso(c) == isIsolated(c, adjList)
        IsTree(c) == getPrerequisiteCourseIds(c) # <<>>
        isoCourses == SelectSeq(cs, IsIso)
        treeCourses == SelectSeq(cs, IsTree)
    IN  [isolated |-> [i \in DOMAIN isoCourses |-> isoCourses[i].id],
         tree |-> [i \in DOMAIN treeCourses |-> treeCourses[i].id]]

\* lines 61-73: the isolated ids and the tree ids, each in catalog order
partition(cs, adjList) ==
    LET IsIso(c) == isIsolated(c, adjList)
        IsTree(c) == ~isIsolated(c, adjList)
        isoCourses == SelectSeq(cs, IsIso)
        treeCourses == SelectSeq(cs, IsTree)
    IN  [isolated |-> [i \in DOMAIN isoCourses |-> isoCourses[i].id],
         tree |-> [i \in DOMAIN treeCourses |-> treeCourses[i].id]]

\* lines 91-111: the nodes of all rows, the rows in ascending order of level
placeRows(levelNodes, courseMap) ==
    \* Math.max() of no rows is -Infinity; no row then reads maxRowWidth
    LET maxNodes == IF DOMAIN levelNodes = {} THEN 0
                    ELSE MaxOf({Len(levelNodes[l]) : l \in DOMAIN levelNodes})
    IN  gridNodes(ascending(DOMAIN levelNodes), levelNodes,
                  (maxNodes - 1) * horizontalSpacing, courseMap)

\* lines 76-111: shift the tree, group by level, place
shiftAndPlace(isolated, tree, lvl, courseMap) ==
    LET Place(levelNodes) == placeRows(levelNodes, courseMap)
    IN  [level |-> lvl,
         nodes |-> Bind(groupByLevel(isolated, tree, lvl), Place)]

GridFinishNothingToDraw ==
    /\ gpc = "loop"
    /\ queue = <<>>
    /\ \E courseMap \in {thisCourseMap}, adjList \in {thisAdjList} :
          \E part \in {partition(pCourses, adjList)} :
              \E shifted \in {shiftTree(part.tree, level)} :
                  \E placed \in {shiftAndPlace(part.isolated, part.tree, shifted,
                                               courseMap)} :
                      /\ level' = placed.level
                      /\ grid' = IF placed.nodes = <<>> THEN Null
                                 ELSE [nodes |-> placed.nodes,
                                       links |-> buildLinks(pCourses, courseMap)]
    /\ gpc' = "done"
    /\ UNCHANGED <<pCourses, inDeg, queue, rpc, rnext, visited, depths, radial>>
    /\ UNCHANGED <<callVars, appVars>>

\* lines 60-124: the queue is empty; partition, shift, group, place, link, return
GridFinish ==
    /\ gpc = "loop"
    /\ queue = <<>>
    /\ \E courseMap \in {thisCourseMap}, adjList \in {thisAdjList} :
          \E part \in {partition(pCourses, adjList)} :
              \E shifted \in {shiftTree(part.tree, level)} :
                  \E placed \in {shiftAndPlace(part.isolated, part.tree, shifted,
                                               courseMap)} :
                      /\ level' = placed.level
                      /\ grid' = [nodes |-> placed.nodes,
                                  links |-> buildLinks(pCourses, courseMap)]
    /\ gpc' = "done"
    /\ UNCHANGED <<pCourses, inDeg, queue, rpc, rnext, visited, depths, radial>>
    /\ UNCHANGED <<callVars, appVars>>

(***************************************************************************)
(* components/CourseGraphProcessor.js: processRadialGraph                  *)
(***************************************************************************)
radiusStep == 120
\* the radius of the ring of depth 0
startRadius == 80
entryLevelNumbers == {"101", "102", "110", "113", "114", "130", "150"}

\* the entries of the depths object are kept in the order their keys were first set
hasDepth(d, courseId) == \E i \in DOMAIN d : d[i].id = courseId
\* depths[courseId] || 0
depthOrZero(d, courseId) ==
    IF hasDepth(d, courseId) THEN d[CHOOSE i \in DOMAIN d : d[i].id = courseId].depth
    ELSE 0
\* depths[courseId] = value
setDepth(d, courseId, value) ==
    IF hasDepth(d, courseId)
    THEN [i \in DOMAIN d |-> IF d[i].id = courseId THEN [d[i] EXCEPT !.depth = value]
                             ELSE d[i]]
    ELSE Append(d, [id |-> courseId, depth |-> value])

\* the values of a sequence of numbers
Values(q) == {q[i] : i \in DOMAIN q}

RECURSIVE calculateDepth(_, _, _), mapCalculateDepth(_, _, _)

\* validPrereqIds.map(prereqId => calculateDepth(prereqId)), left to right: the depths
\* returned, and visited and depths after the calls
mapCalculateDepth(prereqIds, courseMap, st) ==
    IF prereqIds = <<>> THEN [ret |-> <<>>, visited |-> st.visited, depths |-> st.depths]
    ELSE LET After(first) ==
                 LET Combine(rest) == [ret |-> <<first.ret>> \o rest.ret,
                                       visited |-> rest.visited, depths |-> rest.depths]
                 IN  Bind(mapCalculateDepth(Tail(prereqIds), courseMap, first), Combine)
         IN  Bind(calculateDepth(Head(prereqIds), courseMap, st), After)

calculateDepthFirstPrereq(courseId, courseMap, st) ==
    LET Body(s) ==
            IF courseId \in s.visited
            THEN [ret |-> depthOrZero(s.depths, courseId), visited |-> s.visited,
                  depths |-> s.depths]
            ELSE LET v1 == s.visited \cup {courseId}
                     course == Lookup(courseMap, courseId)
                     prereqIds == getPrerequisiteCourseIds(course)
                     Valid(prereqId) == prereqId \in DOMAIN courseMap
                     validPrereqIds == SelectSeq(prereqIds, Valid)
                     Leaf(value) == [ret |-> value, visited |-> v1,
                                     depths |-> setDepth(s.depths, courseId, value)]
                     Finish(mapped) ==
                         LET maxPrereqDepth == mapped.ret[1]
                         IN  [ret |-> maxPrereqDepth + 1, visited |-> mapped.visited,
                              depths |-> setDepth(mapped.depths, courseId,
                                                  maxPrereqDepth + 1)]
                 IN  IF course = Null
                     THEN [ret |-> 0, visited |-> v1, depths |-> s.depths]
                     ELSE IF prereqIds = <<>> THEN
                         IF course.deptCode = "CSE" /\ course.number \in entryLevelNumbers
                         THEN Leaf(0) ELSE Leaf(1)
                     ELSE IF validPrereqIds = <<>> THEN Leaf(1)
                     ELSE Bind(mapCalculateDepth(validPrereqIds, courseMap,
                                                 [visited |-> v1, depths |-> s.depths]),
                               Finish)
    IN  Bind(st, Body)

\* lines 133-170: returns the depth, and visited and depths as the call leaves them
calculateDepth(courseId, courseMap, st) ==
    LET Body(s) ==
            IF courseId \in s.visited
            THEN [ret |-> depthOrZero(s.depths, courseId), visited |-> s.visited,
                  depths |-> s.depths]
            ELSE LET v1 == s.visited \cup {courseId}
                     course == Lookup(courseMap, courseId)
                     prereqIds == getPrerequisiteCourseIds(course)
                     Valid(prereqId) == prereqId \in DOMAIN courseMap
                     validPrereqIds == SelectSeq(prereqIds, Valid)
                     Leaf(value) == [ret |-> value, visited |-> v1,
                                     depths |-> setDepth(s.depths, courseId, value)]
                     Finish(mapped) ==
                         LET maxPrereqDepth == MaxOf(Values(mapped.ret))
                         IN  [ret |-> maxPrereqDepth + 1, visited |-> mapped.visited,
                              depths |-> setDepth(mapped.depths, courseId,
                                                  maxPrereqDepth + 1)]
                 IN  IF course = Null
                     THEN [ret |-> 0, visited |-> v1, depths |-> s.depths]
                     ELSE IF prereqIds = <<>> THEN
                         IF course.deptCode = "CSE" /\ course.number \in entryLevelNumbers
                         THEN Leaf(0) ELSE Leaf(1)
                     ELSE IF validPrereqIds = <<>> THEN Leaf(1)
                     ELSE Bind(mapCalculateDepth(validPrereqIds, courseMap,
                                                 [visited |-> v1, depths |-> s.depths]),
                               Finish)
    IN  Bind(st, Body)

RadialDepthSameCourse ==
    /\ rpc = "depths"
    /\ rnext <= Len(pCourses)
    /\ \E courseMap \in {thisCourseMap} :
          \E st \in {calculateDepth(pCourses[rnext].id, courseMap,
                                    [visited |-> visited, depths |-> depths])} :
              /\ visited' = st.visited
              /\ depths' = st.depths
    /\ rnext' = rnext
    /\ UNCHANGED <<pCourses, gpc, inDeg, queue, level, grid, rpc, radial>>
    /\ UNCHANGED <<callVars, appVars>>

\* line 173: one iteration of this.courses.forEach(course => calculateDepth(course.id))
RadialDepth ==
    /\ rpc = "depths"
    /\ rnext <= Len(pCourses)
    /\ \E courseMap \in {thisCourseMap} :
          \E st \in {calculateDepth(pCourses[rnext].id, courseMap,
                                    [visited |-> visited, depths |-> depths])} :
              /\ visited' = st.visited
              /\ depths' = st.depths
    /\ rnext' = rnext + 1
    /\ UNCHANGED <<pCourses, gpc, inDeg, queue, level, grid, rpc, radial>>
    /\ UNCHANGED <<callVars, appVars>>

\* lines 176-180: the ids of each depth, in the key order of depths
groupByDepth(d) ==
    [k \in {d[i].depth : i \in DOMAIN d} |->
        LET AtDepth(e) == e.depth = k
            ring == SelectSeq(d, AtDepth)
        IN  [i \in DOMAIN ring |-> ring[i].id]]

\* lines 190-213: the nodes of one ring; the node at position index of a ring of
\* ringSize nodes lies at the angle index * (2 * PI / ringSize) - PI / 2
ringNodes(depth, courseIds, courseMap) ==
    LET Known(courseId) == courseId \in DOMAIN courseMap
        placed == SelectSeq(courseIds, Known)
        IndexOf(courseId) == (CHOOSE i \in DOMAIN courseIds : courseIds[i] = courseId) - 1
    IN  [i \in DOMAIN placed |->
            [id |-> placed[i], code |-> courseMap[placed[i]].code,
             name |-> courseMap[placed[i]].code, depth |-> depth,
             radius |-> depth * radiusStep + startRadius,
             index |-> IndexOf(placed[i]), ringSize |-> Len(courseIds)]]

RECURSIVE radialNodes(_, _, _)
radialNodes(ringDepths, coursesByDepth, courseMap) ==
    IF ringDepths = <<>> THEN <<>>
    ELSE ringNodes(Head(ringDepths), coursesByDepth[Head(ringDepths)], courseMap)
         \o radialNodes(Tail(ringDepths), coursesByDepth, courseMap)

\* nodes.find(n => n.id === id): the first such node, Null (undefined) when there is none
findNode(nodes, id) ==
    IF \E i \in DOMAIN nodes : nodes[i].id = id
    THEN nodes[CHOOSE i \in DOMAIN nodes :
                   nodes[i].id = id /\ \A j \in DOMAIN nodes : nodes[j].id = id => i <= j]
    ELSE Null

linkObjectsByIdOnly(links, nodes) ==
    LET BothFound(link) == findNode(nodes, link.source) # Null
                           /\ findNode(nodes, link.target) # Null
        kept == SelectSeq(links, BothFound)
    IN  [i \in DOMAIN kept |-> [source |-> [id |-> kept[i].source],
                                target |-> [id |-> kept[i].target]]]

\* lines 226-233: the links as pairs of node objects, those with a missing end dropped
linkObjects(links, nodes) ==
    LET BothFound(link) == findNode(nodes, link.source) # Null
                           /\ findNode(nodes, link.target) # Null
        kept == SelectSeq(links, BothFound)
    IN  [i \in DOMAIN kept |-> [source |-> findNode(nodes, kept[i].source),
                                target |-> findNode(nodes, kept[i].target)]]

RadialFinishReversesCourses ==
    /\ rpc = "depths"
    /\ rnext = Len(pCourses) + 1
    /\ \E courseMap \in {thisCourseMap}, coursesByDepth \in {groupByDepth(depths)} :
          \E nodes \in {radialNodes(ascending(DOMAIN coursesByDepth), coursesByDepth,
                                    courseMap)} :
              \E links \in {buildLinks(pCourses, courseMap)} :
                  radial' = [nodes |-> nodes, links |-> linkObjects(links, nodes)]
    /\ pCourses' = [i \in DOMAIN pCourses |-> pCourses[Len(pCourses) + 1 - i]]
    /\ rpc' = "done"
    /\ UNCHANGED <<gpc, inDeg, queue, level, grid, rnext, visited, depths>>
    /\ UNCHANGED <<callVars, appVars>>

\* lines 175-235: every course has been visited; group, place, link, return
RadialFinish ==
    /\ rpc = "depths"
    /\ rnext = Len(pCourses) + 1
    /\ \E courseMap \in {thisCourseMap}, coursesByDepth \in {groupByDepth(depths)} :
          \E nodes \in {radialNodes(ascending(DOMAIN coursesByDepth), coursesByDepth,
                                    courseMap)} :
              \E links \in {buildLinks(pCourses, courseMap)} :
                  radial' = [nodes |-> nodes, links |-> linkObjects(links, nodes)]
    /\ rpc' = "done"
    /\ UNCHANGED <<pCourses, gpc, inDeg, queue, level, grid, rnext, visited, depths>>
    /\ UNCHANGED <<callVars, appVars>>

\* no processor has been constructed (the specifications of the other parts)
LayoutIdle ==
    /\ pCourses = <<>>
    /\ gpc = "idle" /\ inDeg = EmptyObject /\ queue = <<>> /\ level = EmptyObject
    /\ grid = Null
    /\ rpc = "idle" /\ rnext = 1 /\ visited = {} /\ depths = <<>> /\ radial = Null

(***************************************************************************)
(* The graph component                                                     *)
(***************************************************************************)
\* the state of the component after its first render
Mounted(cs, loggedIn, row) ==
    /\ courses = cs
    /\ user = loggedIn
    /\ db = row
    /\ progress = Null
    /\ loading = loggedIn
    /\ saving = FALSE
    /\ saves = <<>>
    /\ completedCourses = {}
    /\ externalCourses = {}
    /\ mode = "view"
    /\ futureMode = FALSE
    /\ selectedCourse = NoCourse
    /\ colors = Render(cs, {}, {}, "view", NoCourse, FALSE)

\* the application is not running (the specifications of the single calls)
AppIdle == Mounted(<<>>, FALSE, Null)

Handlers ==
    \/ \E id \in {"A", "B", "C"} : toggleCompleted(id)
    \/ \E courseCode \in ExternalInputs : addExternalCourse(courseCode)
    \/ \E courseCode \in {trimToUpperCase(c) : c \in ExternalInputs} :
          removeExternalCourse(courseCode)
    \/ SetModeView
    \/ SetModeCompleted
    \/ SetFutureMode
    \/ SetModePrereqs
    \/ \E id \in {"A", "B", "C"} : setSelectedCourse(id)

\* a visitor who is not logged in: nothing is loaded and nothing is saved
InitClassify ==
    /\ \E cs \in Catalogs : Mounted(cs, FALSE, Null)
    /\ evl = Idle /\ ctc = Idle /\ LayoutIdle

SpecClassify == InitClassify /\ [][Handlers]_vars

\* the rows a user may have stored before the session starts
StoredRows ==
    {Null} \cup {[completed_courses |-> {}, taking_now |-> {"A"},
                  external_courses |-> {}, standing |-> st] : st \in {1, MaxStanding}}

InitSession ==
    /\ \E cs \in SessionCatalogs, row \in StoredRows : Mounted(cs, TRUE, row)
    /\ evl = Idle /\ ctc = Idle /\ LayoutIdle

\* the user of this session lets a save finish before the next change
oneSaveAtATime == Len(saves') <= 1

SessionNext ==
    \/ Handlers /\ oneSaveAtATime
    \/ LoadProgress
    \/ LoadFail
    \/ \E i \in 1..MaxInflight : SaveStore(i)
    \/ \E i \in 1..MaxInflight : SaveResolve(i)
    \/ \E i \in 1..MaxInflight : SaveFail(i)

SpecSession == InitSession /\ [][SessionNext]_vars

\* a user who goes to 'completed' mode and changes the record without waiting for
\* the saves: requests overlap, and they are served and answered in any order
progressHandlers ==
    \/ \E id \in {"A", "B"} : toggleCompleted(id)
    \/ \E courseCode \in ExternalInputs : addExternalCourse(courseCode)
    \/ \E courseCode \in {trimToUpperCase(c) : c \in ExternalInputs} :
          removeExternalCourse(courseCode)
    \/ mode = "view" /\ SetModeCompleted

\* every save succeeds
OverlapOkNext ==
    \/ progressHandlers
    \/ LoadProgress
    \/ LoadFail
    \/ \E i \in 1..MaxInflight : SaveStore(i)
    \/ \E i \in 1..MaxInflight : SaveResolve(i)

OverlapNext ==
    \/ OverlapOkNext
    \/ \E i \in 1..MaxInflight : SaveFail(i)

\* a user who has signed in for the first time: no row is stored yet
InitOverlap ==
    /\ \E cs \in SessionCatalogs : Mounted(cs, TRUE, Null)
    /\ evl = Idle /\ ctc = Idle /\ LayoutIdle

SpecOverlapOk == InitOverlap /\ [][OverlapOkNext]_vars
SpecOverlap == InitOverlap /\ [][OverlapNext]_vars

(***************************************************************************)
(* The catalogs the layouts are run on, and the two layout runs            *)
(***************************************************************************)
\* a course outside the CSE department whose number is an entry-level number
CourseD(active, pre, co) == Course("D", "AMS 110", "AMS", "110", active, pre, co)

LayoutLeafIds == {"A", "B", "C", "D", AbsentId}

\* a prerequisite tree whose COURSE leaves are the ids of leafIds, in that order
prereqTree(leafIds) ==
    IF leafIds = <<>> THEN Null
    ELSE IF Len(leafIds) = 1 THEN CourseNode(leafIds[1])
    ELSE IF Len(leafIds) = 2 THEN AndNode(<<CourseNode(leafIds[1]), CourseNode(leafIds[2])>>)
    ELSE AndNode(<<CourseNode(leafIds[1]),
                   OrNode([i \in 1..(Len(leafIds) - 1) |-> CourseNode(leafIds[i + 1])])>>)

\* the leaf lists of n courses that have at most budget leaves together
RECURSIVE leafLists(_, _)
leafLists(n, budget) ==
    IF n = 0 THEN {<<>>}
    ELSE UNION {{<<l>> \o rest : l \in [1..k -> LayoutLeafIds],
                                 rest \in leafLists(n - 1, budget - k)} :
                k \in 0..budget}

\* catalogs whose trees also hold TRUE and STANDING_AT_LEAST leaves, a repeated leaf,
\* an absent id, and corequisite trees
MixedCatalogs ==
    {<<CourseA(TRUE, Null, CourseNode("B")),
       CourseB(TRUE, AndNode(<<CourseNode("A"), StandingNode(LeafMinStanding), TrueNode,
                               CourseNode("A")>>), Null),
       CourseC(TRUE, CourseNode(AbsentId), CourseNode("A")),
       CourseD(TRUE, TrueNode, CourseNode(coD))>> : coD \in {"B", AbsentId}}

\* the empty catalog, and the catalogs of A, B, C and D with every such leaf list:
\* chains, joins, repeated leaves, absent ids, self-references and longer cycles
LayoutCatalogs ==
    {<<>>} \cup MixedCatalogs \cup
    {<<CourseA(TRUE, prereqTree(ls[1]), Null), CourseB(TRUE, prereqTree(ls[2]), Null),
       CourseC(TRUE, prereqTree(ls[3]), Null), CourseD(TRUE, prereqTree(ls[4]), Null)>> :
        ls \in leafLists(4, MaxPrereqLeaves)}

\* new CourseGraphProcessor(courses), before processGraph is called
InitGrid ==
    /\ pCourses \in LayoutCatalogs
    /\ gpc = "new" /\ inDeg = EmptyObject /\ queue = <<>> /\ level = EmptyObject
    /\ grid = Null
    /\ rpc = "idle" /\ rnext = 1 /\ visited = {} /\ depths = <<>> /\ radial = Null
    /\ evl = Idle /\ ctc = Idle /\ AppIdle

GridNext == GridSeed \/ GridShift \/ GridFinish

SpecGrid == InitGrid /\ [][GridNext]_vars

\* the grid layout run on the same catalogs, for the statements that lay every
\* reordering of the catalog out again
SpecGridOrder == InitGrid /\ [][GridNext]_vars

\* new CourseGraphProcessor(courses), processRadialGraph at line 172
InitRadial ==
    /\ pCourses \in LayoutCatalogs
    /\ gpc = "idle" /\ inDeg = EmptyObject /\ queue = <<>> /\ level = EmptyObject
    /\ grid = Null
    /\ rpc = "depths" /\ rnext = 1 /\ visited = {} /\ depths = <<>> /\ radial = Null
    /\ evl = Idle /\ ctc = Idle /\ AppIdle

RadialNext == RadialDepth \/ RadialFinish

SpecRadial == InitRadial /\ [][RadialNext]_vars

\* a processor exists
processorBuilt == gpc # "idle" \/ rpc # "idle"

\* GraphComponent: new CourseGraphProcessor(courses), whose processGraph is called next
NewGridProcessor(cs) ==
    /\ gpc = "idle" /\ rpc = "idle"
    /\ pCourses' = cs
    /\ gpc' = "new"
    /\ UNCHANGED <<inDeg, queue, level, grid, rpc, rnext, visited, depths, radial>>
    /\ UNCHANGED <<callVars, appVars>>

\* RadialGraphComponent: new CourseGraphProcessor(courses), processRadialGraph entered
NewRadialProcessor(cs) ==
    /\ gpc = "idle" /\ rpc = "idle"
    /\ pCourses' = cs
    /\ rpc' = "depths"
    /\ UNCHANGED <<gpc, inDeg, queue, level, grid, rnext, visited, depths, radial>>
    /\ UNCHANGED <<callVars, appVars>>

InitLayout == LayoutIdle /\ evl = Idle /\ ctc = Idle /\ AppIdle

LayoutNext ==
    \/ ~processorBuilt /\ \E cs \in LayoutCatalogs : NewGridProcessor(cs)
    \/ ~processorBuilt /\ \E cs \in LayoutCatalogs : NewRadialProcessor(cs)
    \/ GridNext
    \/ RadialNext

\* a page constructs a processor and calls one of its two methods
SpecLayout == InitLayout /\ [][LayoutNext]_vars

\* the call is synchronous code that runs on to its return, hence the weak fairness
\* of its steps
SpecLayoutFair == SpecLayout /\ WF_vars(GridNext) /\ WF_vars(RadialNext)

(***************************************************************************)
(* The evaluateReq call: arguments drawn at Init, the call as one action   *)
(***************************************************************************)
EvalModes == {"PREREQ", "COREQ"}

EvalInit ==
    \E node \in ReqTrees(EvalIds, MaxTreeSize),
       completed \in SUBSET EvalIds, takingNow \in SUBSET EvalIds,
       standing \in 1..MaxStanding :
        evl = [phase |-> "args", node |-> node, completedCourseIds |-> completed,
               takingNowIds |-> takingNow, userStanding |-> standing]

CallEvaluateReq(reqMode) ==
    /\ evl.phase = "args"
    /\ evl' = [evl EXCEPT !.phase = "returned"]
                @@ [mode |-> reqMode,
                    value |-> evaluateReq(evl.node, evl.completedCourseIds,
                                          evl.takingNowIds, evl.userStanding, reqMode)]
    /\ UNCHANGED <<ctc, appVars, layoutVars>>

EvalNext == \E reqMode \in EvalModes : CallEvaluateReq(reqMode)

InitEval == EvalInit /\ ctc = Idle /\ AppIdle /\ LayoutIdle

SpecEval == InitEval /\ [][EvalNext]_vars

(***************************************************************************)
(* The canTakeCourse call: arguments drawn at Init, the call as one action *)
(***************************************************************************)
RECURSIVE TreeSize(_), SeqSize(_)
TreeSize(node) ==
    IF node.kind \in {"AND", "OR"} THEN 1 + SeqSize(node.nodes)
    ELSE IF node.kind = "NULL" THEN 0 ELSE 1
SeqSize(ns) == IF ns = <<>> THEN 0 ELSE TreeSize(Head(ns)) + SeqSize(Tail(ns))

\* the courses whose two requirement trees have at most MaxTreeSize nodes together
CanTakeCourses ==
    UNION {{[active |-> a, prerequisites |-> p, corequisites |-> c] :
               a \in BOOLEAN,
               c \in {Null} \cup ReqTrees(EvalIds, MaxTreeSize - TreeSize(p))} :
           p \in {Null} \cup ReqTrees(EvalIds, MaxTreeSize)}

CanTakeInit ==
    \E course \in CanTakeCourses,
       completed \in SUBSET EvalIds, takingNow \in SUBSET EvalIds,
       standing \in 1..MaxStanding :
        ctc = [phase |-> "args", course |-> course, completedCourseIds |-> completed,
               takingNowIds |-> takingNow, userStanding |-> standing]

CallCanTakeCourse ==
    /\ ctc.phase = "args"
    /\ ctc' = [ctc EXCEPT !.phase = "returned"]
                @@ [value |-> canTakeCourse(ctc.course, ctc.completedCourseIds,
                                            ctc.takingNowIds, ctc.userStanding)]
    /\ UNCHANGED <<evl, appVars, layoutVars>>

CanTakeNext == CallCanTakeCourse

InitCanTake == CanTakeInit /\ evl = Idle /\ AppIdle /\ LayoutIdle

SpecCanTake == InitCanTake /\ [][CanTakeNext]_vars

(***************************************************************************)
(* Claims about the evaluator                                              *)
(***************************************************************************)
RECURSIVE Reference(_, _, _, _, _)
\* the evaluator's reference semantics, by quantification over the children
Reference(node, completed, takingNow, standing, reqMode) ==
    CASE node.kind = "TRUE" -> TRUE
      [] node.kind = "COURSE" ->
            IF reqMode = "PREREQ" THEN node.courseId \in completed
            ELSE node.courseId \in (completed \cup takingNow)
      [] node.kind = "STANDING_AT_LEAST" -> standing >= node.minStanding
      [] node.kind = "AND" ->
            \A i \in DOMAIN node.nodes :
                Reference(node.nodes[i], completed, takingNow, standing, reqMode)
      [] node.kind = "OR" ->
            \E i \in DOMAIN node.nodes :
                Reference(node.nodes[i], completed, takingNow, standing, reqMode)

Returned == evl.phase = "returned"
OtherMode(m) == IF m = "PREREQ" THEN "COREQ" ELSE "PREREQ"
\* the set of course ids named by a COURSE leaf of the tree
LeafIds(node) == {extractCourseIds(node)[i] : i \in DOMAIN extractCourseIds(node)}

\* C1: every evaluateReq call on a finite tree returns a boolean, and that boolean is
\* the reference semantics of the tree: TRUE is true, COURSE(id) is membership in
\* completed (PREREQ) or in completed-or-takingNow (COREQ), STANDING_AT_LEAST(min) is
\* standing >= min, AND is the conjunction of the children (true when there are none)
\* and OR is their disjunction (false when there are none).
C1_EvaluateReqIsReference ==
    Returned =>
        /\ evl.value \in BOOLEAN
        /\ evl.value = Reference(evl.node, evl.completedCourseIds, evl.takingNowIds,
                                 evl.userStanding, evl.mode)
        /\ (evl.node = AndNode(<<>>) => evl.value = TRUE)
        /\ (evl.node = OrNode(<<>>) => evl.value = FALSE)

\* an OR with no children has been evaluated and came out false
C1_Witness ==
    /\ Returned
    /\ evl.node = OrNode(<<>>)
    /\ evl.value = FALSE

\* C2: with nothing completed and X taken now, COURSE(X) is false in PREREQ mode and
\* true in COREQ mode; a tree true in PREREQ mode is true in COREQ mode on the same
\* inputs; and the two modes agree on every tree none of whose leaves names a course
\* that is in takingNow but not in completed.
C2_PrereqCoreqAsymmetry ==
    Returned =>
        /\ \A x \in EvalIds :
              (evl.node = CourseNode(x) /\ evl.completedCourseIds = {}
                 /\ evl.takingNowIds = {x})
              => (evl.value = (evl.mode = "COREQ"))
        /\ (evl.mode = "PREREQ" /\ evl.value)
              => evaluateReq(evl.node, evl.completedCourseIds, evl.takingNowIds,
                             evl.userStanding, "COREQ")
        /\ (LeafIds(evl.node) \cap (evl.takingNowIds \ evl.completedCourseIds) = {})
              => evl.value = evaluateReq(evl.node, evl.completedCourseIds,
                                         evl.takingNowIds, evl.userStanding,
                                         OtherMode(evl.mode))

\* COURSE(A) was evaluated in PREREQ mode with A only taken now, and came out false
C2_Witness ==
    /\ Returned
    /\ evl.node = CourseNode("A")
    /\ evl.completedCourseIds = {}
    /\ evl.takingNowIds = {"A"}
    /\ evl.mode = "PREREQ"
    /\ evl.value = FALSE

(***************************************************************************)
(* Claims about canTakeCourse                                              *)
(***************************************************************************)
CanTakeReturned == ctc.phase = "returned"

\* C3: canTakeCourse returns false for every course whose active flag is false,
\* whatever the completed set, the takingNow set and the standing are, also when all
\* of its prerequisites and corequisites are satisfied.
C3_InactiveGate ==
    (CanTakeReturned /\ ~ctc.course.active) => ctc.value = FALSE

\* an inactive course whose prerequisite and corequisite trees both hold was refused
C3_Witness ==
    /\ CanTakeReturned
    /\ ~ctc.course.active
    /\ ctc.course.prerequisites # Null
    /\ ctc.course.corequisites # Null
    /\ Reference(ctc.course.prerequisites, ctc.completedCourseIds, {},
                 ctc.userStanding, "PREREQ")
    /\ Reference(ctc.course.corequisites, ctc.completedCourseIds, ctc.takingNowIds,
                 ctc.userStanding, "COREQ")
    /\ ctc.value = FALSE

\* C4: for a course with no corequisites the result of canTakeCourse is the same for
\* every takingNow set, and a prerequisite COURSE leaf whose course is only taken now
\* (not completed) is not satisfied.
C4_PrereqIgnoresTakingNow ==
    (CanTakeReturned /\ ctc.course.corequisites = Null) =>
        /\ \A T2 \in SUBSET EvalIds :
              canTakeCourse(ctc.course, ctc.completedCourseIds, T2, ctc.userStanding)
                 = ctc.value
        /\ \A x \in EvalIds :
              (ctc.course.prerequisites = CourseNode(x)
                 /\ x \in ctc.takingNowIds \ ctc.completedCourseIds)
              => ctc.value = FALSE

\* an active course with the single prerequisite A was refused to a student who is
\* taking A now and has not completed it
C4_Witness ==
    /\ CanTakeReturned
    /\ ctc.course.active
    /\ ctc.course.corequisites = Null
    /\ ctc.course.prerequisites = CourseNode("A")
    /\ "A" \in ctc.takingNowIds
    /\ "A" \notin ctc.completedCourseIds
    /\ ctc.value = FALSE

(***************************************************************************)
(* Claims about the classifier                                             *)
(***************************************************************************)
\* the classifier decides the colours in the 'view' and 'completed' modes
ClassifierShown == mode \in {"view", "completed"}
courseMapNow == buildCourseMap(courses)
externalIdsNow == getExternalCourseIds(externalCourses, buildCourseCodeMap(courses))
\* the student's record as the progress row holds it
RecordTakingNow == IF progress = Null THEN {} ELSE progress.taking_now
RecordStanding == standingOf(progress)

Rank(color) ==
    CASE color = "LOCKED" -> 0
      [] color = "FUTURE" -> 1
      [] color = "AVAILABLE" -> 2
      [] color = "COMPLETED" -> 3

\* C5 (as claimed): a course that is not completed is Available exactly when
\* canTakeCourse holds for it on completed-and-external ids with the takingNow and the
\* standing of the student's record.
C5_AvailableIffCanTakeOnRecord ==
    ClassifierShown =>
        \A id \in DOMAIN colors :
            id \notin completedCourses =>
                ((colors[id] = "AVAILABLE")
                    <=> canTakeCourse(courseMapNow[id],
                                      completedCourses \cup externalIdsNow,
                                      RecordTakingNow, RecordStanding))

\* C6: when one course id is added to completedCourses, with the catalog, the external
\* courses and futureMode unchanged, no other course's classification falls in the
\* order Locked < FutureAvailable < Available < Completed.
C6_ClassifierMonotone ==
    [][(/\ ClassifierShown
        /\ mode' \in {"view", "completed"}
        /\ completedCourses \subseteq completedCourses'
        /\ Cardinality(completedCourses' \ completedCourses) = 1
        /\ externalCourses' = externalCourses
        /\ futureMode' = futureMode
        /\ courses' = courses)
       => \A id \in DOMAIN colors \ (completedCourses' \ completedCourses) :
              Rank(colors'[id]) >= Rank(colors[id])]_vars

\* completing A has lifted B, whose prerequisite is A, to Available
C6_Witness ==
    /\ mode = "completed"
    /\ courses[2].prerequisites = CourseNode("A")
    /\ courses[2].active
    /\ completedCourses = {"A"}
    /\ externalCourses = {}
    /\ colors["B"] = "AVAILABLE"

AvailableNow == {id \in DOMAIN colors : colors[id] = "AVAILABLE"}
ChainCatalog ==
    <<CourseA(TRUE, Null, Null), CourseB(TRUE, CourseNode("A"), Null),
      CourseC(TRUE, CourseNode("B"), Null)>>

\* C7: a course that is neither Completed nor Available is FutureAvailable exactly
\* when futureMode is on and canTakeCourse holds for it on completed, external and
\* currently Available ids together; the lookahead is one step, so in the chain
\* A -> B -> C with nothing completed and futureMode on A is Available, B is
\* FutureAvailable and C is Locked; with futureMode off nothing is FutureAvailable.
C7_OneStepLookahead ==
    ClassifierShown =>
        /\ \A id \in DOMAIN colors :
              (id \notin completedCourses /\ colors[id] # "AVAILABLE") =>
                  ((colors[id] = "FUTURE")
                      <=> (futureMode
                           /\ canTakeCourse(courseMapNow[id],
                                            completedCourses \cup externalIdsNow
                                               \cup AvailableNow,
                                            DefaultTakingNow, DefaultStanding)))
        /\ (courses = ChainCatalog /\ completedCourses = {} /\ externalCourses = {}
              /\ futureMode)
              => (colors["A"] = "AVAILABLE" /\ colors["B"] = "FUTURE"
                    /\ colors["C"] = "LOCKED")
        /\ ~futureMode => \A id \in DOMAIN colors : colors[id] # "FUTURE"

\* the chain with nothing completed has been rendered with futureMode on
C7_Witness ==
    /\ courses = ChainCatalog
    /\ mode = "completed"
    /\ futureMode
    /\ completedCourses = {}
    /\ externalCourses = {}
    /\ colors["B"] = "FUTURE"
    /\ colors["C"] = "LOCKED"

ScenarioCatalog ==
    <<CourseA(TRUE, Null, Null), CourseB(TRUE, CourseNode("A"), Null),
      CourseC(TRUE, AndNode(<<CourseNode("A"), CourseNode("B")>>), Null)>>
\* the prerequisite tree is an AND whose children are all COURSE leaves
IsAndOfCourses(node) ==
    /\ node.kind = "AND"
    /\ node.nodes # <<>>
    /\ \A i \in DOMAIN node.nodes : node.nodes[i].kind = "COURSE"

\* C8: in the catalog {A, B needs A, C needs A AND B} with futureMode off and no
\* external credit: with nothing completed A is Available and B, C are Locked; with A
\* completed B is Available and C Locked; with A and B completed C is Available.  In
\* every catalog, with futureMode off, a course that is not itself completed and
\* whose prerequisite is an AND of COURSE leaves is Locked as long as one of those
\* courses is not counted as completed (completed, or credited as external course).
C8_ScenarioAndLock ==
    (ClassifierShown /\ ~futureMode) =>
        /\ (courses = ScenarioCatalog /\ externalIdsNow = {}) =>
              /\ completedCourses = {} =>
                    (colors["A"] = "AVAILABLE" /\ colors["B"] = "LOCKED"
                       /\ colors["C"] = "LOCKED")
              /\ completedCourses = {"A"} =>
                    (colors["B"] = "AVAILABLE" /\ colors["C"] = "LOCKED")
              /\ completedCourses = {"A", "B"} => colors["C"] = "AVAILABLE"
        /\ \A id \in DOMAIN colors :
              (/\ id \notin completedCourses
               /\ IsAndOfCourses(courseMapNow[id].prerequisites)
               /\ \E i \in DOMAIN courseMapNow[id].prerequisites.nodes :
                     courseMapNow[id].prerequisites.nodes[i].courseId
                        \notin completedCourses \cup externalIdsNow)
              => colors[id] = "LOCKED"

\* in the scenario catalog A has been completed and C, which needs A AND B, is Locked
C8_Witness ==
    /\ courses = ScenarioCatalog
    /\ mode = "completed"
    /\ ~futureMode
    /\ completedCourses = {"A"}
    /\ externalCourses = {}
    /\ colors["B"] = "AVAILABLE"
    /\ colors["C"] = "LOCKED"

(***************************************************************************)
(* Claims about the layouts                                                *)
(***************************************************************************)
\* the prerequisite edges among catalog courses, as pairs <<u, v>>: v names u
catalogEdges == {<<l.source, l.target>> : l \in SeqToSet(buildLinks(pCourses, thisCourseMap))}

\* the ids reachable from the ids of S along the edges of E, S included
RECURSIVE closure(_, _)
closure(S, E) ==
    LET more == S \cup {e[2] : e \in {f \in E : f[1] \in S}}
    IN  IF more = S THEN S ELSE closure(more, E)

\* the ids that depend on u: reachable from u by one edge or more
dependOn(u, E) == closure({e[2] : e \in {f \in E : f[1] = u}}, E)
onCycle(u, E) == u \in dependOn(u, E)
\* u lies on a prerequisite cycle or depends on a course that does
behindCycle(u, E) == \E w \in {e[1] : e \in E} : onCycle(w, E) /\ u \in {w} \cup dependOn(w, E)
\* the edge u -> v lies on a prerequisite cycle
edgeOnCycle(u, v, E) == u \in dependOn(v, E)

GridDone == gpc = "done"
\* the level of a node of the grid: its y divided by verticalSpacing
gridLevel(id) == findNode(grid.nodes, id).y \div verticalSpacing

\* C9, as stated: for every edge (u -> v) in the output of processGraph, the level of
\* v (its y divided by verticalSpacing) is strictly greater than the level of u.
\* It fails on a catalog with a prerequisite cycle: E requiring E gives an edge whose
\* two ends are one node.
C9_EveryEdgeDescends ==
    GridDone =>
        \A i \in DOMAIN grid.links :
            gridLevel(grid.links[i].target) > gridLevel(grid.links[i].source)

\* C9, amended: for every edge (u -> v) in the output of processGraph whose source u
\* neither lies on a prerequisite cycle nor depends on a course that does (so for
\* every edge of an acyclic catalog), the level of v is strictly greater than the
\* level of u.
C9_EdgesBelowLevelledSourcesDescend ==
    GridDone =>
        \A i \in DOMAIN grid.links :
            ~behindCycle(grid.links[i].source, catalogEdges)
                => gridLevel(grid.links[i].target) > gridLevel(grid.links[i].source)

\* a finished grid of a catalog that holds a cycle and, apart from it, a chain of two
\* edges whose last course lies two levels below its first
C9_Witness ==
    /\ GridDone
    /\ \E e \in catalogEdges : edgeOnCycle(e[1], e[2], catalogEdges)
    /\ \E i, j \in DOMAIN grid.links :
          /\ grid.links[i].target = grid.links[j].source
          /\ ~behindCycle(grid.links[j].source, catalogEdges)
          /\ gridLevel(grid.links[j].target) >= gridLevel(grid.links[i].source) + 2

RadialDone == rpc = "done"
\* the valid prerequisites of a course: the ids its prerequisite tree names that the
\* catalog contains
validPrereqsOf(id) == {e[1] : e \in {f \in catalogEdges : f[2] = id}}

\* C10, as stated: for every edge (u -> v) in the output of processRadialGraph,
\* depth(v) >= depth(u) + 1, with depth(v) = depth(u) + 1 when u is v's only
\* prerequisite.  It fails on an edge of a prerequisite cycle.
C10_EveryEdgeDeepens ==
    RadialDone =>
        \A i \in DOMAIN radial.links :
            LET u == radial.links[i].source
                v == radial.links[i].target
            IN  /\ v.depth >= u.depth + 1
                /\ validPrereqsOf(v.id) = {u.id} => v.depth = u.depth + 1

\* C10, amended: for every edge (u -> v) in the output of processRadialGraph that does
\* not lie on a prerequisite cycle, depth(v) >= depth(u) + 1, with
\* depth(v) = depth(u) + 1 when u is v's only valid prerequisite.
C10_EdgesOffCyclesDeepen ==
    RadialDone =>
        \A i \in DOMAIN radial.links :
            LET u == radial.links[i].source
                v == radial.links[i].target
            IN  ~edgeOnCycle(u.id, v.id, catalogEdges) =>
                    /\ v.depth >= u.depth + 1
                    /\ validPrereqsOf(v.id) = {u.id} => v.depth = u.depth + 1

\* a finished radial layout with an edge off every cycle into a course with one valid
\* prerequisite, and an edge off every cycle into a course that lies more than one
\* ring beyond the edge's source
C10_Witness ==
    /\ RadialDone
    /\ \E i \in DOMAIN radial.links :
          /\ ~edgeOnCycle(radial.links[i].source.id, radial.links[i].target.id,
                          catalogEdges)
          /\ validPrereqsOf(radial.links[i].target.id) = {radial.links[i].source.id}
          /\ radial.links[i].target.depth = radial.links[i].source.depth + 1
    /\ \E i \in DOMAIN radial.links :
          /\ ~edgeOnCycle(radial.links[i].source.id, radial.links[i].target.id,
                          catalogEdges)
          /\ radial.links[i].target.depth > radial.links[i].source.depth + 1

\* the queue loop reads this.adjList[courseId] and the in-degree of each dependent;
\* the read of a missing key would throw
loopReadsDefined ==
    (gpc = "loop" /\ queue # <<>>) =>
        /\ Head(queue) \in DOMAIN thisAdjList
        /\ \A i \in DOMAIN thisAdjList[Head(queue)] :
              thisAdjList[Head(queue)][i] \in DOMAIN inDeg
hasSelfReference == \E e \in catalogEdges : e[1] = e[2]
hasLongerCycle == \E e \in catalogEdges : e[1] # e[2] /\ edgeOnCycle(e[1], e[2], catalogEdges)

\* C11: processGraph and processRadialGraph terminate on every finite catalog, also
\* on one whose prerequisite references form a cycle or a self-reference: the Kahn
\* queue loop empties and the recursive depth computation returns, and no step reads
\* a key that is missing.
C11_LayoutsTerminate ==
    /\ [](loopReadsDefined)
    /\ (gpc = "new") ~> (gpc = "done" /\ queue = <<>> /\ grid # Null)
    /\ (rpc = "depths") ~> (rpc = "done" /\ rnext = Len(pCourses) + 1 /\ radial # Null)

\* a call that has returned on a catalog with both a self-reference and a longer cycle
C11_Witness ==
    /\ hasSelfReference /\ hasLongerCycle
    /\ \/ gpc = "done" /\ queue = <<>> /\ grid # Null
       \/ rpc = "done" /\ radial # Null

\* the catalog's ids are unique
uniqueIds == \A i, j \in DOMAIN pCourses : pCourses[i].id = pCourses[j].id => i = j
\* the node list holds each catalog course exactly once and nothing else
eachCourseOnce(nodes) ==
    /\ Len(nodes) = Len(pCourses)
    /\ \A i \in DOMAIN pCourses :
          Cardinality({j \in DOMAIN nodes : nodes[j].id = pCourses[i].id}) = 1

\* C12: for every catalog with unique ids, the node list returned by processGraph and
\* the node list returned by processRadialGraph each contain every catalog course
\* exactly once; courses on a prerequisite cycle are neither dropped nor duplicated.
C12_EveryCourseOnce ==
    uniqueIds =>
        /\ gpc = "done" => eachCourseOnce(grid.nodes)
        /\ rpc = "done" => eachCourseOnce(radial.nodes)

\* a returned layout of a catalog in which one course requires itself, another lies
\* behind it, and two more form a cycle of their own or stand apart
C12_Witness ==
    /\ uniqueIds /\ hasSelfReference
    /\ \E e \in catalogEdges : e[1] # e[2] /\ onCycle(e[1], catalogEdges)
    /\ \/ gpc = "done" /\ Len(grid.nodes) = Len(pCourses) /\ Len(pCourses) > 1
       \/ rpc = "done" /\ Len(radial.nodes) = Len(pCourses) /\ Len(pCourses) > 1

(***************************************************************************)
(* A session on a catalog that has lost a course                           *)
(***************************************************************************)
\* the bundled catalog of a later deployment: a course that CSE 214 requires is gone
StaleCatalogs ==
    {<<CourseA(TRUE, Null, Null), CourseB(TRUE, CourseNode(AbsentId), Null)>>}

\* the rows an earlier session may have stored: completed_courses is a UUID[] column
\* that nothing ties to the catalog the page is built with
StaleRows ==
    {Null} \cup {[completed_courses |-> done, taking_now |-> {},
                  external_courses |-> {}, standing |-> 1] : done \in {{}, {AbsentId}}}

InitStale ==
    /\ \E cs \in StaleCatalogs, row \in StaleRows : Mounted(cs, TRUE, row)
    /\ evl = Idle /\ ctc = Idle /\ LayoutIdle

SpecStale == InitStale /\ [][SessionNext]_vars

\* the COURSE leaves of the catalog's prerequisite trees whose id no course bears
absentLeafIds ==
    {pr.source : pr \in {p \in SeqToSet(prereqPairs(courses)) :
                            p.source \notin DOMAIN courseMapNow}}

\* C13: a COURSE leaf whose id is not present in the catalog is permanently false: for
\* every student record reachable through the application (loaded progress, toggles,
\* external courses) such a leaf never evaluates true, and it produces no adjacency
\* entry and no layout edge.
C13_AbsentLeafNeverTrue ==
    \A z \in absentLeafIds :
        /\ ~evaluateReq(CourseNode(z), completedCourses \cup externalIdsNow,
                        DefaultTakingNow, DefaultStanding, "PREREQ")
        /\ z \notin DOMAIN buildAdjacencyList(courses, courseMapNow)
        /\ \A l \in SeqToSet(buildLinks(courses, courseMapNow)) : l.source # z

\* C14: for an empty course list, buildCourseMap, buildCourseCodeMap and
\* buildAdjacencyList return empty maps, and processGraph and processRadialGraph
\* return an empty node list and an empty edge list.
C14_EmptyCatalog ==
    pCourses = <<>> =>
        /\ DOMAIN buildCourseMap(pCourses) = {}
        /\ DOMAIN buildCourseCodeMap(pCourses) = {}
        /\ DOMAIN buildAdjacencyList(pCourses, buildCourseMap(pCourses)) = {}
        /\ gpc = "done" => grid = [nodes |-> <<>>, links |-> <<>>]
        /\ rpc = "done" => radial = [nodes |-> <<>>, links |-> <<>>]

\* a layout call on a processor built from the empty list has returned
C14_Witness ==
    /\ pCourses = <<>>
    /\ \/ gpc = "done" /\ grid # Null /\ rpc = "idle"
       \/ rpc = "done" /\ radial # Null /\ gpc = "idle"

\* C15: a course whose id is in completedCourses is classified Completed regardless of
\* its active flag, of unsatisfied prerequisites and of futureMode, and the classifier
\* gives every course one of Completed, Available, FutureAvailable, Locked.
C15_CompletedFirst ==
    ClassifierShown =>
        \A id \in DOMAIN colors :
            /\ id \in completedCourses => colors[id] = "COMPLETED"
            /\ colors[id] \in {"COMPLETED", "AVAILABLE", "FUTURE", "LOCKED"}

\* with futureMode on, a completed course that is inactive and whose prerequisites are
\* not satisfied is shown Completed
C15_Witness ==
    /\ ClassifierShown /\ futureMode
    /\ \E id \in completedCourses \cap DOMAIN colors :
          /\ ~courseMapNow[id].active
          /\ ~evaluateReq(courseMapNow[id].prerequisites,
                          completedCourses \cup externalIdsNow,
                          DefaultTakingNow, DefaultStanding, "PREREQ")
          /\ colors[id] = "COMPLETED"

\* C16: for an authenticated user, after any sequence of toggleCompleted,
\* addExternalCourse and removeExternalCourse calls (also calls issued while earlier
\* saves are in flight, the saves completing in any order), once every issued save has
\* completed successfully the completed_courses and external_courses of the stored row
\* equal the sets shown locally.
C16_StoredEqualsShown ==
    (user /\ ~loading /\ saves = <<>> /\ db # Null) =>
        /\ db.completed_courses = completedCourses
        /\ db.external_courses = externalCourses

\* C17: the saving flag is true in every state in which at least one save is in
\* progress and false in every state in which none is, also when a second save starts
\* before the first one finishes and when a save fails.
C17_SavingIffSaveInProgress == saving <=> saves # <<>>

\* the number of COURSE(p) leaves of a requirement tree
RECURSIVE courseLeaves(_, _)
courseLeaves(node, p) ==
    IF node.kind = "COURSE" THEN (IF node.courseId = p THEN 1 ELSE 0)
    ELSE IF node.kind \in {"AND", "OR"} /\ node.nodes # <<>>
         THEN courseLeaves(Head(node.nodes), p)
              + courseLeaves([node EXCEPT !.nodes = Tail(node.nodes)], p)
    ELSE 0
catalogIds == {pCourses[i].id : i \in DOMAIN pCourses}

\* C18: buildAdjacencyList returns a map with a key for every catalog course, and
\* adjacency[p] lists course c once for each COURSE(p) leaf of c's prerequisite tree;
\* corequisite trees, STANDING_AT_LEAST and TRUE leaves and leaves naming absent ids
\* contribute no entry.
C18_AdjacencyCountsPrereqLeaves ==
    (processorBuilt /\ uniqueIds) =>
        \A adjacency \in {thisAdjList} :
            /\ DOMAIN adjacency = catalogIds
            /\ \A p \in catalogIds :
                  /\ \A i \in DOMAIN adjacency[p] : adjacency[p][i] \in catalogIds
                  /\ \A j \in DOMAIN pCourses :
                        Cardinality({i \in DOMAIN adjacency[p] :
                                        adjacency[p][i] = pCourses[j].id})
                            = courseLeaves(pCourses[j].prerequisites, p)

\* a processor built on a catalog with a repeated COURSE leaf (its course is listed
\* twice), corequisite trees, TRUE and STANDING_AT_LEAST leaves and an absent id
C18_Witness ==
    /\ processorBuilt
    /\ pCourses \in MixedCatalogs
    /\ thisAdjList["A"] = <<"B", "B">>
    /\ thisAdjList["B"] = <<>>
    /\ AbsentId \notin DOMAIN thisAdjList

acyclic == \A e \in catalogEdges : ~onCycle(e[1], catalogEdges)
\* the length of the longest chain of edges of E that ends at id (E without cycles)
RECURSIVE longestChain(_, _)
longestChain(id, E) ==
    LET before == {e[1] : e \in {f \in E : f[2] = id}}
    IN  IF before = {} THEN 0
        ELSE 1 + MaxOf({longestChain(u, E) : u \in before})

\* C19: for an acyclic catalog, the level processGraph gives a connected course is
\* 1 plus the length of the longest chain of in-catalog prerequisite edges ending at
\* that course, not the length of the first path discovered.
C19_LevelIsLongestChain ==
    (GridDone /\ uniqueIds /\ acyclic) =>
        \A i \in DOMAIN pCourses :
            ~isIsolated(pCourses[i], thisAdjList)
                => gridLevel(pCourses[i].id) = 1 + longestChain(pCourses[i].id, catalogEdges)

\* a finished grid of an acyclic catalog in which a course is reached by an edge from
\* a course two levels up or more: the longer path through a third course decided
C19_Witness ==
    /\ GridDone /\ acyclic
    /\ \E e \in catalogEdges :
          /\ gridLevel(e[2]) >= gridLevel(e[1]) + 2
          /\ gridLevel(e[2]) = 1 + longestChain(e[2], catalogEdges)

\* the course has no COURSE leaf in its prerequisite tree
noPrerequisites(c) == \A p \in LayoutLeafIds : courseLeaves(c.prerequisites, p) = 0
\* no prerequisite leaf of the course names a catalog course
noInCatalogPrerequisite(c) == \A e \in catalogEdges : e[2] # c.id
noDependents(c) == \A e \in catalogEdges : e[1] # c.id

\* C20, the part that holds: in the output of processGraph, level 0 holds exactly the
\* isolated courses, those with no prerequisites (no COURSE leaf at all) and no
\* dependents, and every other course is at level >= 1.
C20_TopRowIsIsolated ==
    (GridDone /\ uniqueIds) =>
        \A i \in DOMAIN pCourses :
            IF noPrerequisites(pCourses[i]) /\ noDependents(pCourses[i])
            THEN gridLevel(pCourses[i].id) = 0
            ELSE gridLevel(pCourses[i].id) >= 1

\* C20, as stated: level 0 holds exactly the isolated courses and every other course
\* is at level >= 1, and a course with neither an in-catalog prerequisite nor a
\* dependent is in the top row. The last part fails for a course without dependents
\* whose prerequisite leaves all name ids absent from the catalog: it is at level 1.
C20_NoInCatalogEdgeMeansTopRow ==
    /\ C20_TopRowIsIsolated
    /\ (GridDone /\ uniqueIds) =>
          \A i \in DOMAIN pCourses :
              (noInCatalogPrerequisite(pCourses[i]) /\ noDependents(pCourses[i]))
                  => gridLevel(pCourses[i].id) = 0

\* a finished grid with an isolated course in the top row, and at level 1 a course
\* that nothing depends on and whose only prerequisite leaf names an absent id
C20_Witness ==
    /\ GridDone
    /\ \E i, j \in DOMAIN pCourses :
          /\ noPrerequisites(pCourses[i]) /\ noDependents(pCourses[i])
          /\ gridLevel(pCourses[i].id) = 0
          /\ ~noPrerequisites(pCourses[j]) /\ noInCatalogPrerequisite(pCourses[j])
          /\ noDependents(pCourses[j])
          /\ gridLevel(pCourses[j].id) = 1

radialDepth(id) == findNode(radial.nodes, id).depth
\* one of the curated entry courses
isEntryCourse(c) == c.deptCode = "CSE" /\ c.number \in entryLevelNumbers

\* C21: on an acyclic catalog processRadialGraph gives a course with no valid
\* prerequisites (no prerequisite leaf resolves to a catalog entry) depth 0 if it is
\* one of the curated entry courses and depth 1 otherwise, and a course with at least
\* one valid prerequisite 1 + the maximum depth of its valid prerequisites.
C21_DepthRule ==
    (RadialDone /\ uniqueIds /\ acyclic) =>
        \A i \in DOMAIN pCourses :
            LET c == pCourses[i]
            IN  radialDepth(c.id) =
                    IF validPrereqsOf(c.id) = {}
                    THEN (IF isEntryCourse(c) THEN 0 ELSE 1)
                    ELSE 1 + MaxOf({radialDepth(p) : p \in validPrereqsOf(c.id)})

\* C22: the edge list of processGraph holds exactly one edge per (prereqId -> courseId)
\* pair: an edge (p, c) is present iff p is in the catalog and COURSE(p) occurs in c's
\* prerequisite tree, and no pair occurs more than once, also when p appears in
\* several branches of the tree.
C22_OneEdgePerPair ==
    (GridDone /\ uniqueIds) =>
        /\ \A p \in LayoutLeafIds : \A j \in DOMAIN pCourses :
              ([source |-> p, target |-> pCourses[j].id] \in SeqToSet(grid.links))
                  <=> (p \in catalogIds /\ courseLeaves(pCourses[j].prerequisites, p) > 0)
        /\ \A i, j \in DOMAIN grid.links : grid.links[i] = grid.links[j] => i = j

\* lines 48-58 in one piece: the loop runs until the queue is empty
RECURSIVE whileQueue(_, _)
whileQueue(st, adjList) ==
    IF st.queue = <<>> THEN st
    ELSE LET Step(s) == forEachDependent(adjList[Head(s.queue)], Head(s.queue),
                                         [s EXCEPT !.queue = Tail(s.queue)])
             Rest(s) == whileQueue(s, adjList)
         IN  Bind(Bind(st, Step), Rest)

\* lines 25-111: the nodes processGraph returns for a processor built on cs
processGraphNodes(cs) ==
    LET Run(adjList) ==
            LET Seeded(deg) ==
                    LET IsRoot(id) == deg[id] = 0
                        roots == SelectSeq(courseKeys(cs), IsRoot)
                    IN  [inDeg |-> deg, queue |-> roots,
                         level |-> [id \in SeqToSet(roots) |-> 0]]
                Place(st) ==
                    LET Parted(part) ==
                            shiftAndPlace(part.isolated, part.tree,
                                          shiftTree(part.tree, st.level),
                                          buildCourseMap(cs)).nodes
                    IN  Bind(partition(cs, adjList), Parted)
                Loop(st) == whileQueue(st, adjList)
            IN  Bind(Bind(Bind(countInDeg(cs, adjList), Seeded), Loop), Place)
    IN  Bind(buildAdjacencyList(cs, buildCourseMap(cs)), Run)

\* the course list in the order perm
permuted(cs, perm) == [i \in DOMAIN cs |-> cs[perm[i]]]
\* within every row the nodes stand from left to right in the order of the list cs
rowsInCatalogOrder(nodes, cs) ==
    \A i, j \in DOMAIN cs :
        (i < j /\ findNode(nodes, cs[i].id).y = findNode(nodes, cs[j].id).y)
            => findNode(nodes, cs[i].id).x < findNode(nodes, cs[j].id).x

\* C23: the level processGraph assigns to a course does not depend on the order of
\* the course list: for every permutation of the same catalog every course gets the
\* same level (hence the same y), and within one level the left-to-right order is the
\* catalog order of that level's courses.
C23_LevelsIgnoreCatalogOrder ==
    (GridDone /\ uniqueIds) =>
        /\ grid.nodes = processGraphNodes(pCourses)
        /\ \A perm \in Permutations(DOMAIN pCourses) :
              \E nodes \in {processGraphNodes(permuted(pCourses, perm))} :
                  /\ \A i \in DOMAIN pCourses :
                        findNode(nodes, pCourses[i].id).y
                            = findNode(grid.nodes, pCourses[i].id).y
                  /\ rowsInCatalogOrder(nodes, permuted(pCourses, perm))

\* a finished grid of a catalog in which a later course of the list is a prerequisite
\* of an earlier one and a course has two prerequisite paths of different length, and
\* in which two courses share a row
C23_Witness ==
    /\ GridDone
    /\ \E i, j \in DOMAIN pCourses :
          i < j /\ <<pCourses[j].id, pCourses[i].id>> \in catalogEdges
    /\ \E e \in catalogEdges : gridLevel(e[2]) >= gridLevel(e[1]) + 2
    /\ \E i, j \in DOMAIN pCourses :
          i # j /\ gridLevel(pCourses[i].id) = gridLevel(pCourses[j].id)

\* the (prereqId, courseId) pairs of the catalog whose prereqId is a catalog course
prereqPairsInCatalog ==
    {pc \in catalogIds \X catalogIds :
        \E j \in DOMAIN pCourses :
            pCourses[j].id = pc[2] /\ courseLeaves(pCourses[j].prerequisites, pc[1]) > 0}

\* C24: every edge returned by processRadialGraph has as source and target node
\* objects that are members of the returned node list, and the set of
\* (source.id, target.id) pairs equals the set of (prereqId, courseId) pairs with
\* prereqId in the catalog, the same pairs as the edges of processGraph over the same
\* catalog.
C24_RadialEdgesAreNodePairs ==
    (RadialDone /\ uniqueIds) =>
        /\ \A i \in DOMAIN radial.links :
              /\ radial.links[i].source \in SeqToSet(radial.nodes)
              /\ radial.links[i].target \in SeqToSet(radial.nodes)
        /\ {<<radial.links[i].source.id, radial.links[i].target.id>> :
               i \in DOMAIN radial.links} = prereqPairsInCatalog
        /\ {<<l.source, l.target>> : l \in SeqToSet(buildLinks(pCourses, thisCourseMap))}
               = prereqPairsInCatalog

\* a finished radial layout with an edge between two rings, an edge of a cycle, and a
\* prerequisite leaf that names an absent id and yields no edge
C24_Witness ==
    /\ RadialDone
    /\ \E i, j \in DOMAIN radial.links :
          /\ radial.links[i].source.depth < radial.links[i].target.depth
          /\ onCycle(radial.links[j].source.id, catalogEdges)
    /\ \E j \in DOMAIN pCourses : courseLeaves(pCourses[j].prerequisites, AbsentId) > 0

\* the positions in grid.nodes of the nodes of the row of the node at position n
rowOf(n) == {m \in DOMAIN grid.nodes : grid.nodes[m].y = grid.nodes[n].y}
\* (widest row size - 1) * horizontalSpacing
widestRowWidth ==
    (MaxOf({Cardinality(rowOf(n)) : n \in DOMAIN grid.nodes}) - 1) * horizontalSpacing

\* C25: in the output of processGraph a node at index i of a level with k courses has
\* x = (maxRowWidth - (k-1)*horizontalSpacing)/2 + i*horizontalSpacing and
\* y = level*verticalSpacing, where maxRowWidth is (widest row size - 1) *
\* horizontalSpacing; so the first and the last x of every row add up to maxRowWidth
\* and no two nodes share a position.
C25_RowsCentred ==
    (GridDone /\ grid.nodes # <<>>) =>
        /\ \A n \in DOMAIN grid.nodes :
              LET k == Cardinality(rowOf(n))
                  i == Cardinality({m \in rowOf(n) : m < n})
              IN  /\ 2 * (grid.nodes[n].x - i * horizontalSpacing)
                         = widestRowWidth - (k - 1) * horizontalSpacing
                  /\ grid.nodes[n].y = level[grid.nodes[n].id] * verticalSpacing
        /\ \A n \in DOMAIN grid.nodes :
              LET first == CHOOSE m \in rowOf(n) : \A o \in rowOf(n) : m <= o
                  last == CHOOSE m \in rowOf(n) : \A o \in rowOf(n) : o <= m
              IN  grid.nodes[first].x + grid.nodes[last].x = widestRowWidth
        /\ \A n, m \in DOMAIN grid.nodes :
              (grid.nodes[n].x = grid.nodes[m].x /\ grid.nodes[n].y = grid.nodes[m].y)
                  => n = m

\* a finished grid with three rows of different sizes: the widest row starts at x = 0
\* and a row of one node stands at the middle
C25_Witness ==
    /\ GridDone /\ uniqueIds
    /\ Cardinality({grid.nodes[n].y : n \in DOMAIN grid.nodes}) >= 3
    /\ \E n, m \in DOMAIN grid.nodes :
          /\ Cardinality(rowOf(n)) = 2 /\ grid.nodes[n].x = 0
          /\ Cardinality(rowOf(m)) = 1 /\ 2 * grid.nodes[m].x = widestRowWidth

(***************************************************************************)
(* The functions of the core called again on the inputs of an earlier call *)
(***************************************************************************)
\* a render evaluates the same tree on the same record once more
EvaluateReqAgain ==
    /\ evl.phase = "returned"
    /\ evl' = [evl EXCEPT !.value = evaluateReq(evl.node, evl.completedCourseIds,
                                                evl.takingNowIds, evl.userStanding,
                                                evl.mode)]
    /\ UNCHANGED <<ctc, appVars, layoutVars>>

CanTakeCourseAgain ==
    /\ ctc.phase = "returned"
    /\ ctc' = [ctc EXCEPT !.value = canTakeCourse(ctc.course, ctc.completedCourseIds,
                                                  ctc.takingNowIds, ctc.userStanding)]
    /\ UNCHANGED <<evl, appVars, layoutVars>>

\* processGraph is called on the processor a second time; its locals start afresh
ProcessGraphAgain ==
    /\ gpc = "done"
    /\ gpc' = "new" /\ inDeg' = EmptyObject /\ queue' = <<>> /\ level' = EmptyObject
    /\ UNCHANGED <<pCourses, grid, rpc, rnext, visited, depths, radial>>
    /\ UNCHANGED <<callVars, appVars>>

ProcessRadialGraphAgain ==
    /\ rpc = "done"
    /\ rpc' = "depths" /\ rnext' = 1 /\ visited' = {} /\ depths' = <<>>
    /\ UNCHANGED <<pCourses, gpc, inDeg, queue, level, grid, radial>>
    /\ UNCHANGED <<callVars, appVars>>

\* the catalogs of the repeated layout calls: one prerequisite leaf fewer
RepeatCatalogs ==
    {<<>>} \cup MixedCatalogs \cup
    {<<CourseA(TRUE, prereqTree(ls[1]), Null), CourseB(TRUE, prereqTree(ls[2]), Null),
       CourseC(TRUE, prereqTree(ls[3]), Null), CourseD(TRUE, prereqTree(ls[4]), Null)>> :
        ls \in leafLists(4, MaxPrereqLeaves - 1)}

\* one of: an evaluateReq call, a canTakeCourse call, a visitor's page, a processor
InitPure ==
    \/ InitEval
    \/ InitCanTake
    \/ /\ \E cs \in SessionCatalogs \cup {ScenarioCatalog} : Mounted(cs, FALSE, Null)
       /\ evl = Idle /\ ctc = Idle /\ LayoutIdle
    \/ InitLayout

PureNext ==
    \/ EvalNext
    \/ EvaluateReqAgain
    \/ CanTakeNext
    \/ CanTakeCourseAgain
    \/ courses # <<>> /\ Handlers
    \/ (evl = Idle /\ ctc = Idle /\ courses = <<>> /\ ~processorBuilt)
          /\ \E cs \in RepeatCatalogs : NewGridProcessor(cs)
    \/ (evl = Idle /\ ctc = Idle /\ courses = <<>> /\ ~processorBuilt)
          /\ \E cs \in RepeatCatalogs : NewRadialProcessor(cs)
    \/ GridNext
    \/ RadialNext
    \/ ProcessGraphAgain
    \/ ProcessRadialGraphAgain

SpecPure == InitPure /\ [][PureNext]_vars

\* the arguments of the evaluateReq call and of the canTakeCourse call
evlArgs(e) == <<e.node, e.completedCourseIds, e.takingNowIds, e.userStanding>>
ctcArgs(c) == <<c.course, c.completedCourseIds, c.takingNowIds, c.userStanding>>
\* the step changes nothing but the mode, futureMode or the selected course
onlyRenders ==
    mode' # mode \/ futureMode' # futureMode \/ selectedCourse' # selectedCourse

InitAnySession ==
    /\ \/ \E cs \in SessionCatalogs, row \in StoredRows : Mounted(cs, TRUE, row)
       \/ \E cs \in SessionCatalogs : Mounted(cs, FALSE, Null)
    /\ evl = Idle /\ ctc = Idle /\ LayoutIdle

SpecAnySession == InitAnySession /\ [][SessionNext]_vars

\* the step is the failure of the i-th save: a request that was never answered is gone
saveRejected(i) == /\ i \in DOMAIN saves
                   /\ saves[i].stage = "sent"
                   /\ saves' = RemoveAt(saves, i)

recordsAbove(completed, takingNow, standing) ==
    {r \in (SUBSET EvalIds) \X (SUBSET EvalIds) \X (1..MaxStanding) :
        completed \subseteq r[1] /\ takingNow \subseteq r[2] /\ standing <= r[3]}

\* C28: evaluateReq and canTakeCourse are monotone in the record: on a record with
\* more completed courses, more courses being taken and a standing at least as high,
\* a requirement tree that was satisfied is still satisfied and a course that could
\* be taken can still be taken.
C28_MonotoneInRecord ==
    /\ (evl # Idle /\ evl.phase = "returned" /\ evl.value) =>
          \A r \in recordsAbove(evl.completedCourseIds, evl.takingNowIds,
                                evl.userStanding) :
              evaluateReq(evl.node, r[1], r[2], r[3], evl.mode)
    /\ (ctc # Idle /\ ctc.phase = "returned" /\ ctc.value) =>
          \A r \in recordsAbove(ctc.completedCourseIds, ctc.takingNowIds,
                                ctc.userStanding) :
              canTakeCourse(ctc.course, r[1], r[2], r[3])

\* a tree with a standing guard and a course leaf is satisfied on a record that is
\* not the largest, and a course with both trees can be taken on such a record
C28_Witness ==
    \/ /\ evl # Idle /\ evl.phase = "returned" /\ evl.value
       /\ evl.node.kind = "AND" /\ Len(evl.node.nodes) = 2
       /\ {evl.node.nodes[1].kind, evl.node.nodes[2].kind} = {"COURSE", "STANDING_AT_LEAST"}
       /\ evl.userStanding < MaxStanding /\ evl.completedCourseIds # EvalIds
    \/ /\ ctc # Idle /\ ctc.phase = "returned" /\ ctc.value
       /\ ctc.course.prerequisites # Null /\ ctc.course.corequisites # Null
       /\ ctc.userStanding < MaxStanding /\ ctc.completedCourseIds # EvalIds

\* the ids of the catalog courses whose code is one of the external codes
matchedIds == {courses[i].id : i \in {j \in DOMAIN courses :
                                         courses[j].code \in externalCourses}}
catalogCodes == {courses[i].code : i \in DOMAIN courses}

\* C29: the classifier depends on externalCourses only through the ids of the catalog
\* courses whose code equals an external code: such an id counts as completed for the
\* prerequisites of other courses, the matching course itself is not Completed unless
\* its id is in completedCourses, and an external code that matches no catalog code
\* changes no classification.
C29_ExternalsCountThroughCatalogCodes ==
    ClassifierShown =>
        /\ \A id \in DOMAIN colors :
              /\ colors[id] = getNodeColor(id, mode, completedCourses, matchedIds,
                                           courseMapNow, selectedCourse, futureMode)
              /\ colors[id] = "COMPLETED" <=> id \in completedCourses
              /\ id \notin completedCourses =>
                    (colors[id] = "AVAILABLE"
                        <=> canTakeCourse(courseMapNow[id],
                                          completedCourses \cup matchedIds,
                                          DefaultTakingNow, DefaultStanding))
        /\ \A code \in externalCourses \ catalogCodes :
              colors = Render(courses, completedCourses, externalCourses \ {code}, mode,
                              selectedCourse, futureMode)
        /\ \A external \in SUBSET (externalCourses \cup catalogCodes) :
              external \cap catalogCodes = externalCourses \cap catalogCodes =>
                  colors = Render(courses, completedCourses, external, mode,
                                  selectedCourse, futureMode)

\* A was taken elsewhere as CSE 114: B, whose prerequisite is A, is Available and A is
\* not Completed; the external MAT 125 matches no course of the catalog
C29_Witness ==
    /\ ClassifierShown
    /\ externalCourses = {"CSE 114", "MAT 125"}
    /\ completedCourses = {}
    /\ courses[2].prerequisites = CourseNode("A")
    /\ colors["B"] = "AVAILABLE"
    /\ colors["A"] # "COMPLETED"

\* the pairs <<c, p>>: the catalog course c has a COURSE leaf for p among its
\* prerequisites (p in the catalog or not)
namesAsPrerequisite ==
    {cp \in {courses[i].id : i \in DOMAIN courses} \X {"A", "B", "C", AbsentId} :
        \E i \in DOMAIN courses :
            courses[i].id = cp[1] /\ courseLeaves(courses[i].prerequisites, cp[2]) > 0}

\* C30: getAllPrerequisites(courseId, courseMap) terminates on every catalog, cyclic
\* ones included, and returns exactly the set that holds courseId and every id
\* reachable from it by following prerequisite COURSE leaves through catalog courses;
\* ids that are not in the catalog are in the set but are not expanded.
C30_AllPrerequisitesIsReachability ==
    /\ \A courseId \in {"A", "B", "C", AbsentId} :
          getAllPrerequisites(courseId, courseMapNow, {})
              = closure({courseId}, namesAsPrerequisite)
    /\ (mode = "prereqs" /\ selectedCourse # NoCourse) =>
          \A id \in DOMAIN colors :
              colors[id] = "PREREQ" <=> id \in closure({selectedCourse},
                                                       namesAsPrerequisite)

\* B and C name each other and C is selected: the walk from C has come back to C and
\* has gone on to A
C30_Witness ==
    /\ mode = "prereqs"
    /\ selectedCourse = "C"
    /\ courses[2].prerequisites = OrNode(<<CourseNode("A"), CourseNode("C")>>)
    /\ courses[3].prerequisites = CourseNode("B")
    /\ colors = [id \in {"A", "B", "C"} |-> "PREREQ"]

====
